---------------------------- MODULE Spec2Model ----------------------------
(***************************************************************************)
(* Model of src/script.py: the MIR -> CPG -> embedding -> Milvus pipeline.  *)
(*                                                                         *)
(* A line of text is a sequence of lexemes.  A run of white space is the   *)
(* lexeme " "; every punctuation character is a lexeme of its own; a local *)
(* (`_\d+`) and a block label (`bb\d+`) are single lexemes.  Adjacent      *)
(* lexemes are adjacent in the text.  The trailing newline readlines()     *)
(* keeps is left out: the only operation applied to the unstripped line is *)
(* _FUNC_START.match, which never looks at the end of the line.            *)
(***************************************************************************)
EXTENDS Integers, Sequences, FiniteSets, Bags, TLC

VARIABLES lines, pc, functions, collections, create_calls, store, skipped,
          fn_i, graph, node_map, definitions, error, EMBEDDING_DIMENSION

vars == <<lines, pc, functions, collections, create_calls, store, skipped,
          fn_i, graph, node_map, definitions, error, EMBEDDING_DIMENSION>>

-----------------------------------------------------------------------------
(* Bounds of the explored inputs *)

MaxLines == 5

MaxBody == 4

MaxDocBlocks == 2

MaxStmts == 3

MaxCfgBlocks == 2

MaxNatural == 3

MaxOrderStmts == 1

MaxFns == 3

MaxDeclBody == 4
MaxReopenBody == 5

-----------------------------------------------------------------------------
(* Lexical classes *)

WS == " "

Locals == {"_0", "_1", "_2", "_3", "_5"}

BlockLabels == {"bb0", "bb1", "bb2", "bb3", "bb10"}

\* int(label[2:])
BlockNum(b) ==
    CASE b = "bb0" -> 0 [] b = "bb1" -> 1 [] b = "bb2" -> 2 [] b = "bb3" -> 3
      [] b = "bb10" -> 10

\* Python's None where the value is otherwise a non-empty line or name
None == <<>>

\* Python's None where the value is otherwise a block label
NoBlock == "None"

\* Python's None where the value is otherwise a node handle
NoNode == -1

\* the key "term" of node_map, next to the statement indices 0, 1, ...
Term == -1

-----------------------------------------------------------------------------
(* Sequence helpers standing for str and re primitives *)

RECURSIVE SkipWs(_, _)
\* position of the first lexeme at or after i that is not white space (\s*)
SkipWs(s, i) ==
    IF i <= Len(s) /\ s[i] = WS THEN SkipWs(s, i + 1) ELSE i

RECURSIVE LastNonWs(_, _)
LastNonWs(s, i) ==
    IF i >= 1 /\ s[i] = WS THEN LastNonWs(s, i - 1) ELSE i

\* str.strip()
Strip(s) ==
    LET a == SkipWs(s, 1)
        b == LastNonWs(s, Len(s))
    IN IF a > b THEN <<>> ELSE SubSeq(s, a, b)

\* pat in s
Contains(s, pat) ==
    \E i \in 1..(Len(s) - Len(pat) + 1) : SubSeq(s, i, i + Len(pat) - 1) = pat

\* s.startswith(pat)
StartsWith(s, pat) ==
    Len(s) >= Len(pat) /\ SubSeq(s, 1, Len(pat)) = pat

RECURSIVE FirstOccurrences(_)
\* a sequence without the repetitions of an earlier element
FirstOccurrences(q) ==
    IF q = <<>> THEN <<>>
    ELSE LET r == FirstOccurrences(SubSeq(q, 1, Len(q) - 1))
             x == q[Len(q)]
         IN IF x \in {r[i] : i \in 1..Len(r)} THEN r ELSE Append(r, x)

Min(S) == CHOOSE x \in S : \A y \in S : x <= y

Max(S) == CHOOSE x \in S : \A y \in S : x >= y

RECURSIVE NameEnd(_, _)
\* end of the run [^\s(]+ that starts at i
NameEnd(s, i) ==
    IF i + 1 <= Len(s) /\ s[i + 1] # WS /\ s[i + 1] # "("
    THEN NameEnd(s, i + 1) ELSE i

\* _FUNC_START = ^\s*fn\s+([^\s(]+) ; group(1), or None when there is no match
FUNC_START(line) ==
    LET f == SkipWs(line, 1)
        n == SkipWs(line, f + 1)
    IN IF /\ f <= Len(line) /\ line[f] = "fn"
          /\ n > f + 1
          /\ n <= Len(line) /\ line[n] # "("
       THEN SubSeq(line, n, NameEnd(line, n))
       ELSE None

\* Positions at which the optional suffix (?:\[.*?\]|\..*?)? of a local at p
\* can end, so that the rest of the pattern goes on at the position after it
SuffixEnds(s, p) ==
    {p}
    \cup (IF p + 1 <= Len(s) /\ s[p + 1] = "["
          THEN {j \in (p + 2)..Len(s) : s[j] = "]"} ELSE {})
    \cup (IF p + 1 <= Len(s) /\ s[p + 1] = "."
          THEN (p + 1)..Len(s) ELSE {})

\* _DECL_RE = ^\s*let\s+(?:mut\s+)?(_\d+(?:\[.*?\]|\..*?)?):\s*(.*?);\s*$
\* the position of the local (group 1 starts there), 0 when there is no match
DeclLocalPos(s) ==
    LET l == SkipWs(s, 1)
        a == SkipWs(s, l + 1)
        m == SkipWs(s, a + 1)
        p == IF a <= Len(s) /\ s[a] = "mut" /\ m > a + 1 THEN m ELSE a
        e == LastNonWs(s, Len(s))
    IN IF /\ l <= Len(s) /\ s[l] = "let"
          /\ a > l + 1
          /\ p <= Len(s) /\ s[p] \in Locals
          /\ e >= 1 /\ s[e] = ";"
          /\ \E j \in SuffixEnds(s, p) : j + 1 < e /\ s[j + 1] = ":"
       THEN p ELSE 0

\* a parser that knows no declarations
DECL_RE_never(s) == FALSE

DECL_RE(s) == DeclLocalPos(s) # 0

\* the dict appended to declarations for a line that matches _DECL_RE
DeclOf(s) ==
    LET p == DeclLocalPos(s)
        e == LastNonWs(s, Len(s))
        c == Min({j + 1 : j \in {k \in SuffixEnds(s, p) : k + 1 < e /\ s[k + 1] = ":"}})
        t == SkipWs(s, c + 1)
    IN [local |-> SubSeq(s, p, c - 1),
        type  |-> IF t < e THEN SubSeq(s, t, e - 1) ELSE <<>>,
        raw   |-> s]

\* _BLOCK_RE = ^\s*(bb\d+): ; group(1), or NoBlock when there is no match
BLOCK_RE(s) ==
    LET b == SkipWs(s, 1)
    IN IF b + 1 <= Len(s) /\ s[b] \in BlockLabels /\ s[b + 1] = ":"
       THEN s[b] ELSE NoBlock

\* a keyword list without the arrow
TerminatorTokens_noarrow ==
    { <<"return", ";">>, <<"unreachable", ";">>,
      <<"resume", ";">>, <<"abort", ";">> }

\* the tuple of control keywords of _parse_function_block
TerminatorTokens ==
    { <<"->">>, <<"return", ";">>, <<"unreachable", ";">>,
      <<"resume", ";">>, <<"abort", ";">> }

HasTerminatorToken(s) == \E tok \in TerminatorTokens : Contains(s, tok)

-----------------------------------------------------------------------------
(* Insertion-ordered dict: a sequence of [k, v] entries with distinct k *)

Keys(d) == [i \in 1..Len(d) |-> d[i].k]

KeySet(d) == {d[i].k : i \in 1..Len(d)}

Get(d, key) == (CHOOSE i \in 1..Len(d) : d[i].k = key)

Val(d, key) == d[Get(d, key)].v

\* d[key] = val : a present key keeps its position
Put(d, key, val) ==
    IF key \in KeySet(d)
    THEN [d EXCEPT ![Get(d, key)] = [k |-> key, v |-> val]]
    ELSE Append(d, [k |-> key, v |-> val])

-----------------------------------------------------------------------------
(* MIRParser *)

EmptyBlock == [statements |-> <<>>, terminator |-> None]

\* "{" in s : the line that opens the body
OpensBody(s) == Contains(s, <<"{">>)

\* a parser that does not stop at the closing brace
ClosesBody_never(s) == FALSE

\* s == "}" : the line that ends the body
ClosesBody(s) == s = <<"}">>

\* a parser that takes a comment line inside a block as content
Skipped_nocomment(current_block, s) == current_block = NoBlock \/ s = <<>>

\* current_block is None or not s or s.startswith("//") : nothing to record
Skipped(current_block, s) ==
    current_block = NoBlock \/ s = <<>> \/ StartsWith(s, <<"//">>)

\* a marker that leaves a block that is already open as it is
OpenBlock_keep(basic_blocks, label) ==
    IF label \in KeySet(basic_blocks) THEN basic_blocks
    ELSE Put(basic_blocks, label, EmptyBlock)

\* a marker that moves a reopened block to the end of the mapping
OpenBlock_moved(basic_blocks, label) ==
    Append(SelectSeq(basic_blocks, LAMBDA e : e.k # label),
           [k |-> label, v |-> EmptyBlock])

\* basic_blocks[current_block] = {"statements": [], "terminator": None}
OpenBlock(basic_blocks, label) == Put(basic_blocks, label, EmptyBlock)

RECURSIVE ParseBodyLoop(_, _, _)
\* the for loop of _parse_function_block from line i on; st holds the locals
\* declarations, basic_blocks, current_block, in_body
ParseBodyLoop(span, i, st) ==
    IF i > Len(span) THEN st
    ELSE
      LET s == Strip(span[i]) IN
      IF ~st.in_body /\ OpensBody(s)
        THEN ParseBodyLoop(span, i + 1, [st EXCEPT !.in_body = TRUE])
      ELSE IF ~st.in_body
        THEN ParseBodyLoop(span, i + 1, st)
      ELSE IF ClosesBody(s)
        THEN st
      ELSE IF DECL_RE(s)
        THEN ParseBodyLoop(span, i + 1,
               [st EXCEPT !.declarations = Append(@, DeclOf(s))])
      ELSE IF BLOCK_RE(s) # NoBlock
        THEN ParseBodyLoop(span, i + 1,
               [st EXCEPT !.current_block = BLOCK_RE(s),
                          !.basic_blocks = OpenBlock(@, BLOCK_RE(s))])
      ELSE IF Skipped(st.current_block, s)
        THEN ParseBodyLoop(span, i + 1, st)
      ELSE IF HasTerminatorToken(s)
        THEN ParseBodyLoop(span, i + 1,
               [st EXCEPT !.basic_blocks =
                  Put(@, st.current_block,
                      [Val(@, st.current_block) EXCEPT !.terminator = s])])
      ELSE ParseBodyLoop(span, i + 1,
               [st EXCEPT !.basic_blocks =
                  Put(@, st.current_block,
                      [Val(@, st.current_block) EXCEPT
                          !.statements = Append(@, s)])])

\* a parser that keeps the record a name already has
ParseFunctionBlock_keepfirst(fns, span) ==
    IF FUNC_START(span[1]) = None \/ FUNC_START(span[1]) \in KeySet(fns)
    THEN fns
    ELSE
      LET st == ParseBodyLoop(span, 1,
                  [declarations |-> <<>>, basic_blocks |-> <<>>,
                   current_block |-> NoBlock, in_body |-> FALSE])
      IN Put(fns, FUNC_START(span[1]),
             [declarations |-> st.declarations,
              basic_blocks |-> st.basic_blocks])

\* _parse_function_block(lines): the functions dict after the call
ParseFunctionBlock(fns, span) ==
    IF FUNC_START(span[1]) = None THEN fns
    ELSE
      LET st == ParseBodyLoop(span, 1,
                  [declarations |-> <<>>, basic_blocks |-> <<>>,
                   current_block |-> NoBlock, in_body |-> FALSE])
      IN Put(fns, FUNC_START(span[1]),
             [declarations |-> st.declarations,
              basic_blocks |-> st.basic_blocks])

\* a parser that hands over a span only when it has lines after the header
HasSpan_body(in_fn, current) == in_fn /\ Len(current) > 1

\* in_fn and current : there is a collected span to hand over
HasSpan(in_fn, current) == in_fn /\ current # <<>>

\* a parser that keeps the lines of the previous span
NewSpan_keep(current, line) == Append(current, line)

\* current = [line] : a header starts a span of its own
NewSpan(current, line) == <<line>>

RECURSIVE ParseLoop(_, _, _, _, _)
\* the for loop of parse from line i on, then the flush after the loop
ParseLoop(ls, i, current, in_fn, fns) ==
    IF i > Len(ls)
    THEN IF HasSpan(in_fn, current) THEN ParseFunctionBlock(fns, current)
         ELSE fns
    ELSE IF FUNC_START(ls[i]) # None
      THEN ParseLoop(ls, i + 1, NewSpan(current, ls[i]), TRUE,
                     IF HasSpan(in_fn, current)
                     THEN ParseFunctionBlock(fns, current) ELSE fns)
    ELSE IF in_fn
      THEN ParseLoop(ls, i + 1, Append(current, ls[i]), TRUE, fns)
    ELSE ParseLoop(ls, i + 1, current, in_fn, fns)

\* MIRParser.parse
parse(ls) == ParseLoop(ls, 1, <<>>, FALSE, <<>>)

-----------------------------------------------------------------------------
(* CPGBuilder *)

\* rx.PyDiGraph(multigraph=True): nodes[h + 1] is the payload of handle h;
\* edges is the bag of edges (parallel edges are kept, their order is not)
EmptyGraph == [nodes |-> <<>>, edges |-> EmptyBag]

\* node_map.get(key)
MapGet(nm, key) == IF key \in DOMAIN nm THEN nm[key] ELSE NoNode

\* graph.add_edge(src, dst, payload)
AddEdge(edges, e) == edges (+) SetToBag({e})

RECURSIVE CreateNodesLoop(_, _, _)
\* the loop of _create_nodes over the blocks from position b on;
\* acc holds graph.nodes and node_map
CreateNodesLoop(bbs, b, acc) ==
    IF b > Len(bbs) THEN acc
    ELSE
      LET block == bbs[b].k
          content == bbs[b].v
          n == Len(content.statements)
          first == Len(acc.nodes)
          stmtNodes == [i \in 1..n |->
                          [type |-> "statement", raw |-> content.statements[i],
                           block |-> block]]
          stmtMap == [key \in {<<block, i>> : i \in 0..(n - 1)} |->
                          first + key[2]]
          withStmts == [nodes |-> acc.nodes \o stmtNodes,
                        node_map |-> stmtMap @@ acc.node_map]
      IN IF content.terminator # None
         THEN CreateNodesLoop(bbs, b + 1,
                [nodes |-> Append(withStmts.nodes,
                              [type |-> "terminator", raw |-> content.terminator,
                               block |-> block]),
                 node_map |-> (<<block, Term>> :> (first + n))
                                 @@ withStmts.node_map])
         ELSE CreateNodesLoop(bbs, b + 1, withStmts)

\* a builder that walks the blocks from the last one to the first
CreateNodes_reversed(parsed_mir) ==
    LET bbs == parsed_mir.basic_blocks
    IN CreateNodesLoop([i \in 1..Len(bbs) |-> bbs[Len(bbs) + 1 - i]], 1,
                       [nodes |-> <<>>, node_map |-> <<>>])

\* _create_nodes
CreateNodes(parsed_mir) ==
    CreateNodesLoop(parsed_mir.basic_blocks, 1,
                    [nodes |-> <<>>, node_map |-> <<>>])

\* a builder that adds the edge without asking whether the target exists
AddCfg_unchecked(edges, nm, src_node, target_block, label) ==
    LET first == MapGet(nm, <<target_block, 0>>)
        tgt == IF first = NoNode THEN MapGet(nm, <<target_block, Term>>)
               ELSE first
    IN AddEdge(edges, [src |-> src_node, dst |-> tgt,
                       type |-> "CFG", label |-> label])

\* a builder that connects to a first statement only
AddCfg_stmt(edges, nm, src_node, target_block, label) ==
    LET tgt == MapGet(nm, <<target_block, 0>>)
    IN IF tgt # NoNode
       THEN AddEdge(edges, [src |-> src_node, dst |-> tgt,
                            type |-> "CFG", label |-> label])
       ELSE edges

\* a builder that connects to the terminator of the target block first
AddCfg_term(edges, nm, src_node, target_block, label) ==
    LET term == MapGet(nm, <<target_block, Term>>)
        tgt == IF term = NoNode THEN MapGet(nm, <<target_block, 0>>)
               ELSE term
    IN IF tgt # NoNode
       THEN AddEdge(edges, [src |-> src_node, dst |-> tgt,
                            type |-> "CFG", label |-> label])
       ELSE edges

\* _add_cfg: the edges after the call
AddCfg(edges, nm, src_node, target_block, label) ==
    LET first == MapGet(nm, <<target_block, 0>>)
        tgt == IF first = NoNode THEN MapGet(nm, <<target_block, Term>>)
               ELSE first
    IN IF tgt # NoNode
       THEN AddEdge(edges, [src |-> src_node, dst |-> tgt,
                            type |-> "CFG", label |-> label])
       ELSE edges

\* _GOTO_RE = goto\s*->\s*(bb\d+); : the positions where a match starts
GotoStarts(raw) ==
    {i \in 1..Len(raw) :
        LET a == SkipWs(raw, i + 1)
            t == SkipWs(raw, a + 1)
        IN /\ raw[i] = "goto"
           /\ t + 1 <= Len(raw)
           /\ raw[a] = "->"
           /\ raw[t] \in BlockLabels
           /\ raw[t + 1] = ";"}

\* _GOTO_RE.search(raw).group(1), or NoBlock
GOTO_RE(raw) ==
    IF GotoStarts(raw) = {} THEN NoBlock
    ELSE raw[SkipWs(raw, SkipWs(raw, Min(GotoStarts(raw)) + 1) + 1)]

\* the positions r of an arrow that is followed by \s*\[ and later by \]
BracketArrows(raw, from) ==
    {r \in (from + 1)..Len(raw) :
        LET o == SkipWs(raw, r + 1)
        IN /\ raw[r] = "->"
           /\ o <= Len(raw) /\ raw[o] = "["
           /\ \E c \in (o + 1)..Len(raw) : raw[c] = "]"}

\* _SWITCH_RE = switchInt.*?->\s*\[(.*?)\] : the positions where a match starts
SwitchStarts(raw) ==
    {i \in 1..Len(raw) : raw[i] = "switchInt" /\ BracketArrows(raw, i) # {}}

\* _SWITCH_RE.search(raw) is not None
SWITCH_RE(raw) == SwitchStarts(raw) # {}

\* ms.group(1): the lazy quantifiers take the first arrow that opens a
\* bracket and the first closing bracket after it
SwitchGroup(raw) ==
    LET r == Min(BracketArrows(raw, Min(SwitchStarts(raw))))
        o == SkipWs(raw, r + 1)
        c == Min({j \in (o + 1)..Len(raw) : raw[j] = "]"})
    IN SubSeq(raw, o + 1, c - 1)

\* a builder that removes repeated targets
FindBlocks_dedup(text) ==
    FirstOccurrences(SelectSeq(text, LAMBDA t : t \in BlockLabels))

\* re.findall(r"bb\d+", text)
FindBlocks(text) == SelectSeq(text, LAMBDA t : t \in BlockLabels)

\* _CALL_RE = ->\s*\[return:\s*(bb\d+),\s*unwind:\s*(bb\d+)\]; :
\* the positions where a match starts
CallStarts(raw) ==
    {i \in 1..Len(raw) :
        LET o == SkipWs(raw, i + 1)
            x == SkipWs(raw, o + 3)
            u == SkipWs(raw, x + 2)
            y == SkipWs(raw, u + 2)
        IN /\ raw[i] = "->"
           /\ y + 2 <= Len(raw)
           /\ raw[o] = "[" /\ raw[o + 1] = "return" /\ raw[o + 2] = ":"
           /\ raw[x] \in BlockLabels /\ raw[x + 1] = ","
           /\ raw[u] = "unwind" /\ raw[u + 1] = ":"
           /\ raw[y] \in BlockLabels
           /\ raw[y + 1] = "]" /\ raw[y + 2] = ";"}

\* a pattern whose groups come out in the other order
CALL_RE_swapped(raw) ==
    IF CallStarts(raw) = {} THEN None
    ELSE
      LET o == SkipWs(raw, Min(CallStarts(raw)) + 1)
          x == SkipWs(raw, o + 3)
          y == SkipWs(raw, SkipWs(raw, x + 2) + 2)
      IN <<raw[y], raw[x]>>

\* _CALL_RE.search(raw).groups(), or None
CALL_RE(raw) ==
    IF CallStarts(raw) = {} THEN None
    ELSE
      LET o == SkipWs(raw, Min(CallStarts(raw)) + 1)
          x == SkipWs(raw, o + 3)
          y == SkipWs(raw, SkipWs(raw, x + 2) + 2)
      IN <<raw[x], raw[y]>>

RECURSIVE AddCfgAll(_, _, _, _, _)
\* for t in targets: self._add_cfg(src, t, label)
AddCfgAll(edges, nm, src, targets, label) ==
    IF targets = <<>> THEN edges
    ELSE AddCfgAll(AddCfg(edges, nm, src, Head(targets), label),
                   nm, src, Tail(targets), label)

\* a builder that stops at the first pattern that matches
CfgEdgesOfBlock_elif(edges, nm, block, content) ==
    LET src == MapGet(nm, <<block, Term>>)
        raw == content.terminator
    IN IF raw = None \/ src = NoNode THEN edges
       ELSE IF GOTO_RE(raw) # NoBlock
         THEN AddCfg(edges, nm, src, GOTO_RE(raw), "goto")
       ELSE IF SWITCH_RE(raw)
         THEN AddCfgAll(edges, nm, src, FindBlocks(SwitchGroup(raw)), "switch")
       ELSE IF CALL_RE(raw) # None
         THEN AddCfg(AddCfg(edges, nm, src, CALL_RE(raw)[1], "return"),
                     nm, src, CALL_RE(raw)[2], "unwind")
       ELSE edges

\* the body of the loop of _create_cfg_edges for one block
CfgEdgesOfBlock(edges, nm, block, content) ==
    LET src == MapGet(nm, <<block, Term>>)
        raw == content.terminator
    IN IF raw = None \/ src = NoNode THEN edges
       ELSE
         LET e1 == IF GOTO_RE(raw) # NoBlock
                   THEN AddCfg(edges, nm, src, GOTO_RE(raw), "goto")
                   ELSE edges
             e2 == IF SWITCH_RE(raw)
                   THEN AddCfgAll(e1, nm, src, FindBlocks(SwitchGroup(raw)),
                                  "switch")
                   ELSE e1
             e3 == IF CALL_RE(raw) # None
                   THEN AddCfg(AddCfg(e2, nm, src, CALL_RE(raw)[1], "return"),
                               nm, src, CALL_RE(raw)[2], "unwind")
                   ELSE e2
         IN e3

RECURSIVE CreateCfgEdgesLoop(_, _, _, _)
CreateCfgEdgesLoop(bbs, b, nm, edges) ==
    IF b > Len(bbs) THEN edges
    ELSE CreateCfgEdgesLoop(bbs, b + 1, nm,
            CfgEdgesOfBlock(edges, nm, bbs[b].k, bbs[b].v))

\* _create_cfg_edges: the edges after the call
CreateCfgEdges(parsed_mir, nm, edges) ==
    CreateCfgEdgesLoop(parsed_mir.basic_blocks, 1, nm, edges)

\* _ASSIGN_RE = ^\s*(_\d+(?:\[.*?\]|\..*?)?)\s*=\s*(.*);\s*$ :
\* the position of the "=" of the match, 0 when there is no match
AssignEq(raw) ==
    LET p == SkipWs(raw, 1)
        e == LastNonWs(raw, Len(raw))
        ok == IF p <= Len(raw) /\ raw[p] \in Locals /\ e >= 1 /\ raw[e] = ";"
              THEN {j \in SuffixEnds(raw, p) :
                       LET q == SkipWs(raw, j + 1)
                       IN q < e /\ raw[q] = "="}
              ELSE {}
    IN IF ok = {} THEN 0 ELSE SkipWs(raw, Min(ok) + 1)

\* m.group(2) of _ASSIGN_RE
AssignRhs(raw) ==
    LET a == SkipWs(raw, AssignEq(raw) + 1)
        e == LastNonWs(raw, Len(raw))
    IN IF a < e THEN SubSeq(raw, a, e - 1) ELSE <<>>

\* _LOCAL_RE.match(m.group(1)).group(1)
AssignBase(raw) == raw[SkipWs(raw, 1)]

\* set(_LOCAL_RE.findall(text))
LocalsIn(text) == {text[i] : i \in 1..Len(text)} \cap Locals

RECURSIVE UseEdges(_, _, _, _)
\* for src_var in set(...): if src_var in self.definitions: add_edge(...)
\* (the edges are a bag, so the iteration order of the set does not show)
UseEdges(edges, defs, used, node_id) ==
    IF used = {} THEN edges
    ELSE
      LET src_var == CHOOSE v \in used : TRUE
          rest == used \ {src_var}
      IN IF src_var \in DOMAIN defs
         THEN UseEdges(AddEdge(edges, [src |-> defs[src_var], dst |-> node_id,
                                       type |-> "DFG"]),
                       defs, rest, node_id)
         ELSE UseEdges(edges, defs, rest, node_id)

\* a builder that records the definition of an assignment before it
\* resolves the reads of its right-hand side
ProcessDfg_deffirst(st, raw, node_id) ==
    IF AssignEq(raw) # 0
    THEN LET defs == (AssignBase(raw) :> node_id) @@ st.definitions
         IN [edges |-> UseEdges(st.edges, defs, LocalsIn(AssignRhs(raw)),
                                node_id),
             definitions |-> defs]
    ELSE [edges |-> UseEdges(st.edges, st.definitions, LocalsIn(raw), node_id),
          definitions |-> st.definitions]

\* a builder for which a node that mentions a local also defines it
ProcessDfg_usedef(st, raw, node_id) ==
    IF AssignEq(raw) # 0
    THEN [edges |-> UseEdges(st.edges, st.definitions,
                             LocalsIn(AssignRhs(raw)), node_id),
          definitions |-> (AssignBase(raw) :> node_id) @@ st.definitions]
    ELSE [edges |-> UseEdges(st.edges, st.definitions, LocalsIn(raw), node_id),
          definitions |-> [v \in LocalsIn(raw) |-> node_id] @@ st.definitions]

\* a builder that scans the whole assignment, left-hand side included
ProcessDfg_lhs(st, raw, node_id) ==
    IF AssignEq(raw) # 0
    THEN [edges |-> UseEdges(st.edges, st.definitions, LocalsIn(raw), node_id),
          definitions |-> (AssignBase(raw) :> node_id) @@ st.definitions]
    ELSE [edges |-> UseEdges(st.edges, st.definitions, LocalsIn(raw), node_id),
          definitions |-> st.definitions]

\* a builder that keeps the first definition of a local
ProcessDfg_first(st, raw, node_id) ==
    IF AssignEq(raw) # 0
    THEN [edges |-> UseEdges(st.edges, st.definitions,
                             LocalsIn(AssignRhs(raw)), node_id),
          definitions |-> st.definitions @@ (AssignBase(raw) :> node_id)]
    ELSE [edges |-> UseEdges(st.edges, st.definitions, LocalsIn(raw), node_id),
          definitions |-> st.definitions]

\* _process_dfg: st holds graph edges and definitions
ProcessDfg(st, raw, node_id) ==
    IF AssignEq(raw) # 0
    THEN [edges |-> UseEdges(st.edges, st.definitions,
                             LocalsIn(AssignRhs(raw)), node_id),
          definitions |-> (AssignBase(raw) :> node_id) @@ st.definitions]
    ELSE [edges |-> UseEdges(st.edges, st.definitions, LocalsIn(raw), node_id),
          definitions |-> st.definitions]

RECURSIVE SortedBlocks(_)
\* a builder that walks the blocks in the insertion order of the record
SortedBlocks_insertion(bbs) == bbs

\* sorted(basic_blocks.items(), key=lambda x: int(x[0][2:])) (stable)
SortedBlocks(bbs) ==
    IF bbs = <<>> THEN <<>>
    ELSE
      LET m == Min({BlockNum(bbs[i].k) : i \in 1..Len(bbs)})
          f == Min({i \in 1..Len(bbs) : BlockNum(bbs[i].k) = m})
      IN <<bbs[f]>> \o
         SortedBlocks([i \in 1..(Len(bbs) - 1) |->
                          IF i < f THEN bbs[i] ELSE bbs[i + 1]])

\* the (raw, node_id) pairs of one block in the order _create_dfg_edges
\* hands them to _process_dfg
DfgItems(nm, block, content) ==
    [i \in 1..Len(content.statements) |->
        [raw |-> content.statements[i], node_id |-> nm[<<block, i - 1>>]]]
    \o (IF content.terminator # None
        THEN << [raw |-> content.terminator, node_id |-> nm[<<block, Term>>]] >>
        ELSE <<>>)

RECURSIVE ProcessDfgAll(_, _)
ProcessDfgAll(st, items) ==
    IF items = <<>> THEN st
    ELSE ProcessDfgAll(ProcessDfg(st, Head(items).raw, Head(items).node_id),
                       Tail(items))

RECURSIVE CreateDfgEdgesLoop(_, _, _, _)
CreateDfgEdgesLoop(sorted, b, nm, st) ==
    IF b > Len(sorted) THEN st
    ELSE CreateDfgEdgesLoop(sorted, b + 1, nm,
            ProcessDfgAll(st, DfgItems(nm, sorted[b].k, sorted[b].v)))

\* _create_dfg_edges: graph edges and definitions after the call
CreateDfgEdges(parsed_mir, nm, edges) ==
    CreateDfgEdgesLoop(SortedBlocks(parsed_mir.basic_blocks), 1, nm,
                       [edges |-> edges, definitions |-> <<>>])

\* CPGBuilder(parsed_mir).build_graph(): the builder's fields after the call
BuildGraph(parsed_mir) ==
    LET created == CreateNodes(parsed_mir)
        cfg == CreateCfgEdges(parsed_mir, created.node_map, EmptyBag)
        dfg == CreateDfgEdges(parsed_mir, created.node_map, cfg)
    IN [graph |-> [nodes |-> created.nodes, edges |-> dfg.edges],
        node_map |-> created.node_map,
        definitions |-> dfg.definitions]

-----------------------------------------------------------------------------
(* Config, VectorizerAndStorer *)

\* the values of Config.EMBEDDING_DIMENSION (--dim) the runs are made with
SmallDimension == 2

ScenarioDimension == 8

\* the output lengths the embedding algorithm may have of its own: short
\* ones, and one that is longer than the configured length
NaturalLengths == (1..MaxNatural) \cup {EMBEDDING_DIMENSION + 1}

\* Config.MILVUS_COLLECTION_NAME (--collection)
MILVUS_COLLECTION_NAME == "rust_cpg_collection"

\* Config.MIR_FILE_PATH (--mir)
MIR_FILE_PATH == "f.mir"

\* graph.num_nodes()
NumNodes(g) == Len(g.nodes)

\* a count of the edges that takes parallel edges as one
NumEdges_distinct(g) == Cardinality(BagToSet(g.edges))

\* graph.num_edges()
NumEdges(g) == BagCardinality(g.edges)

\* the vector FeatherGraph returns when its natural output length is n; the
\* components are whatever the algorithm computes, component i is written i
\* so that it can be told from the padding
NaturalEmbedding(n) == [i \in 1..n |-> i]

\* a vectorizer that cuts a long vector and leaves a short one as it is
Normalise_nopad(emb, target) ==
    IF Len(emb) > target THEN SubSeq(emb, 1, target) ELSE emb

\* the truncate / pad step at the end of vectorize_graph
Normalise(emb, target) ==
    IF Len(emb) # target
    THEN IF Len(emb) > target
         THEN SubSeq(emb, 1, target)
         ELSE emb \o [i \in 1..(target - Len(emb)) |-> 0]
    ELSE emb

\* a vectorizer that embeds a graph without nodes too
VectorizeGraph_always(g, n) ==
    Normalise(NaturalEmbedding(n), EMBEDDING_DIMENSION)

\* vectorize_graph, for a natural output length n of the embedding algorithm
VectorizeGraph(g, n) ==
    IF NumNodes(g) = 0 THEN None
    ELSE Normalise(NaturalEmbedding(n), EMBEDDING_DIMENSION)

-----------------------------------------------------------------------------
(* main: the steps of the pipeline *)

\* MIRParser.parse, called from main
Parse ==
    /\ UNCHANGED EMBEDDING_DIMENSION
    /\ pc = "parse"
    /\ functions' = parse(lines)
    /\ pc' = "setup"
    /\ UNCHANGED <<lines, collections, create_calls, store, skipped, fn_i,
                   graph, node_map, definitions, error>>

\* a setup that creates the collection without asking whether it exists
SetupMilvusCollection_always ==
    /\ collections' = collections \cup {MILVUS_COLLECTION_NAME}
    /\ create_calls' = create_calls + 1

\* setup_milvus_collection: create the collection unless it exists
SetupMilvusCollection ==
    IF MILVUS_COLLECTION_NAME \in collections
    THEN UNCHANGED <<collections, create_calls>>
    ELSE /\ collections' = collections \cup {MILVUS_COLLECTION_NAME}
         /\ create_calls' = create_calls + 1

\* vs.setup_milvus_collection(), called from main
Setup ==
    /\ UNCHANGED EMBEDDING_DIMENSION
    /\ pc = "setup"
    /\ SetupMilvusCollection
    /\ pc' = "process"
    /\ UNCHANGED <<lines, functions, store, skipped, fn_i,
                   graph, node_map, definitions, error>>

\* process_functions up to its loop
ProcessStart ==
    /\ UNCHANGED EMBEDDING_DIMENSION
    /\ pc = "process"
    /\ SetupMilvusCollection
    /\ fn_i' = 1
    /\ pc' = "loop"
    /\ UNCHANGED <<lines, functions, store, skipped, graph, node_map,
                   definitions, error>>

\* a loop whose builders share one definitions table, which the builder of
\* a function finds as the builder of the function before left it
BuilderOfIteration_shared ==
    LET parsed_mir == functions[fn_i].v
        created == CreateNodes(parsed_mir)
        cfg == CreateCfgEdges(parsed_mir, created.node_map, EmptyBag)
        dfg == CreateDfgEdgesLoop(SortedBlocks(parsed_mir.basic_blocks), 1,
                   created.node_map,
                   [edges |-> cfg, definitions |-> definitions])
    IN [graph |-> [nodes |-> created.nodes, edges |-> dfg.edges],
        node_map |-> created.node_map,
        definitions |-> dfg.definitions]

\* builder = CPGBuilder(fn_mir); graph = builder.build_graph() : a new
\* builder for the function of this iteration, with its fields after the call
BuilderOfIteration == BuildGraph(functions[fn_i].v)

\* one iteration of the loop of process_functions
ProcessFunction ==
    /\ UNCHANGED EMBEDDING_DIMENSION
    /\ pc = "loop"
    /\ fn_i <= Len(functions)
    /\ LET fn == functions[fn_i].k
           builder == BuilderOfIteration
       IN /\ graph' = builder.graph
          /\ node_map' = builder.node_map
          /\ definitions' = builder.definitions
          /\ \E n \in NaturalLengths :
               LET emb == VectorizeGraph(builder.graph, n)
               IN IF emb = None
                  THEN /\ skipped' = Append(skipped, fn)
                       /\ UNCHANGED store
                  ELSE /\ store' = Append(store,
                              [vector |-> emb,
                               function_name |-> fn,
                               source_file |-> MIR_FILE_PATH,
                               node_count |-> NumNodes(builder.graph),
                               edge_count |-> NumEdges(builder.graph)])
                       /\ UNCHANGED skipped
    /\ fn_i' = fn_i + 1
    /\ UNCHANGED <<lines, pc, functions, collections, create_calls, error>>

\* an iteration of the loop in which the embedding algorithm raises:
\* process_functions has no handler, the exception leaves it and main
EmbeddingRaises ==
    /\ UNCHANGED EMBEDDING_DIMENSION
    /\ pc = "loop"
    /\ fn_i <= Len(functions)
    /\ LET builder == BuilderOfIteration
       IN /\ NumNodes(builder.graph) > 0
          /\ graph' = builder.graph
          /\ node_map' = builder.node_map
          /\ definitions' = builder.definitions
    /\ error' = "embed"
    /\ pc' = "aborted"
    /\ UNCHANGED <<lines, functions, collections, create_calls, store, skipped,
                   fn_i>>

\* a loop that reports the failed insert and goes on with the next function
InsertFailure_swallowed ==
    /\ error' = "insert"
    /\ pc' = "loop"
    /\ fn_i' = fn_i + 1

\* the outcome of an iteration whose client.insert raises
InsertFailure ==
    /\ error' = "insert"
    /\ pc' = "aborted"
    /\ UNCHANGED fn_i

\* an iteration of the loop in which client.insert raises: insert_vector and
\* process_functions have no handler, the exception leaves them and main
InsertRaises ==
    /\ UNCHANGED EMBEDDING_DIMENSION
    /\ pc = "loop"
    /\ fn_i <= Len(functions)
    /\ LET builder == BuilderOfIteration
       IN /\ NumNodes(builder.graph) > 0
          /\ graph' = builder.graph
          /\ node_map' = builder.node_map
          /\ definitions' = builder.definitions
    /\ InsertFailure
    /\ UNCHANGED <<lines, functions, collections, create_calls, store, skipped>>

\* the loop of process_functions is exhausted, main prints Done
Finish ==
    /\ UNCHANGED EMBEDDING_DIMENSION
    /\ pc = "loop"
    /\ fn_i > Len(functions)
    /\ pc' = "done"
    /\ UNCHANGED <<lines, functions, collections, create_calls, store, skipped,
                   fn_i, graph, node_map, definitions, error>>

Next ==
    \/ Parse
    \/ Setup
    \/ ProcessStart
    \/ ProcessFunction
    \/ EmbeddingRaises
    \/ InsertRaises
    \/ Finish

\* the state once MIRParser(path) has read the lines of the file
InitWith(texts) ==
    /\ lines \in texts
    /\ pc = "parse"
    /\ functions = <<>>
    /\ collections = {}
    /\ create_calls = 0
    /\ store = <<>>
    /\ skipped = <<>>
    /\ fn_i = 0
    /\ graph = EmptyGraph
    /\ node_map = <<>>
    /\ definitions = <<>>
    /\ error = "none"
    /\ EMBEDDING_DIMENSION = SmallDimension

-----------------------------------------------------------------------------
(* The lines the inputs are made of *)

\* fn a() {
FnA == <<"fn", " ", "a", "(", ")", " ", "{">>

\* fn b()          (the opening brace comes on a later line)
FnB == <<"fn", " ", "b", "(", ")">>

\*     bb0: {
Bb0Open == <<" ", "bb0", ":", " ", "{">>

\*     bb1: {
Bb1Open == <<" ", "bb1", ":", " ", "{">>

\*     }
CloseBrace == <<" ", "}">>

\*     let mut _1: u8;
DeclU8 == <<" ", "let", " ", "mut", " ", "_1", ":", " ", "u8", ";">>

\*     let _2: fn() -> u8;
DeclFn == <<" ", "let", " ", "_2", ":", " ", "fn", "(", ")", " ", "->", " ", "u8", ";">>

\*     let _3.0: u8;
DeclField == <<" ", "let", " ", "_3", ".", "0", ":", " ", "u8", ";">>

\*     let x: u8;
LetX == <<" ", "let", " ", "x", ":", " ", "u8", ";">>

\* bbN:
Label(b) == <<b, ":">>

\*     bbN: {
LabelOpen(b) == <<" ", b, ":", " ", "{">>

\* return;
Ret == <<"return", ";">>

\* goto -> bbN;
Goto(b) == <<"goto", " ", "->", " ", b, ";">>

\* _1 = 5;
Asg == <<"_1", " ", "=", " ", "5", ";">>

\* // return;
Comment == <<"//", " ", "return", ";">>

Blank == <<" ">>

\* switchInt(move _1) -> [0: bb1, otherwise: bb2];
Switch12 ==
    <<"switchInt", "(", "move", " ", "_1", ")", " ", "->", " ", "[", "0", ":",
      " ", "bb1", ",", " ", "otherwise", ":", " ", "bb2", "]", ";">>

\* switchInt(move _1) -> [0: bb1, 1: bb1, otherwise: bb2];
SwitchDup ==
    <<"switchInt", "(", "move", " ", "_1", ")", " ", "->", " ", "[", "0", ":",
      " ", "bb1", ",", " ", "1", ":", " ", "bb1", ",", " ", "otherwise", ":",
      " ", "bb2", "]", ";">>

\* _5 = foo(move _1) -> [return: bb1, unwind: bb2];
Call12 ==
    <<"_5", " ", "=", " ", "foo", "(", "move", " ", "_1", ")", " ", "->", " ",
      "[", "return", ":", " ", "bb1", ",", " ", "unwind", ":", " ", "bb2",
      "]", ";">>

\* switchInt(move _1) -> [return: bb2, unwind: bb1];
SwitchCall ==
    <<"switchInt", "(", "move", " ", "_1", ")", " ", "->", " ", "[", "return",
      ":", " ", "bb2", ",", " ", "unwind", ":", " ", "bb1", "]", ";">>

\* _2 = _1;
Copy21 == <<"_2", " ", "=", " ", "_1", ";">>

\* _3 = Add(_1, move _2, _1);
Add3 ==
    <<"_3", " ", "=", " ", "Add", "(", "_1", ",", " ", "move", " ", "_2", ",",
      " ", "_1", ")", ";">>

\* _1.0 = _3;
Field1 == <<"_1", ".", "0", " ", "=", " ", "_3", ";">>

\* _1 = Add(_1, _2);
Self1 == <<"_1", " ", "=", " ", "Add", "(", "_1", ",", " ", "_2", ")", ";">>

\* _1 = _5;
Copy15 == <<"_1", " ", "=", " ", "_5", ";">>

\* _1 = 10;
Asg10 == <<"_1", " ", "=", " ", "10", ";">>

\* StorageDead(_1);
Dead1 == <<"StorageDead", "(", "_1", ")", ";">>

-----------------------------------------------------------------------------
(* Input families *)

\* all sequences over S of length at most n
SeqUpTo(S, n) == UNION {[1..k -> S] : k \in 0..n}

RECURSIVE Flatten(_)
Flatten(ss) == IF ss = <<>> THEN <<>> ELSE Head(ss) \o Flatten(Tail(ss))

\* texts that vary the function headers and the braces
StructLines == {FnA, FnB, Bb0Open, Bb1Open, CloseBrace, DeclU8}

StructTexts == SeqUpTo(StructLines, MaxLines)

\* texts that vary the body of one function
BodyLines ==
    {Label("bb0"), Ret, Goto("bb1"), Asg, DeclFn, Comment, Blank, CloseBrace}

BodyTexts == {<<FnA>> \o t : t \in SeqUpTo(BodyLines, MaxBody)}

\* a block written as in the docstring of MIRParser:  bbN: { ... }
DocBlock(b) ==
    <<LabelOpen(b.label)>> \o b.statements
        \o (IF b.terminator # None THEN <<b.terminator>> ELSE <<>>)
        \o <<CloseBrace>>

\* a function written as in the docstring of MIRParser
DocFunction(decls, blocks) ==
    <<FnA>> \o decls
        \o Flatten([i \in 1..Len(blocks) |-> DocBlock(blocks[i])])
        \o << <<"}">> >>

DocBlocks ==
    [label : {"bb0", "bb1", "bb2"}, statements : {<<>>, <<Asg>>},
     terminator : {Ret, Goto("bb1")}]

DocTexts ==
    {DocFunction(d, bs) :
        d \in {<<>>, <<DeclU8>>},
        bs \in SeqUpTo(DocBlocks, MaxDocBlocks) \ {<<>>}}

\* a block written with a bare label, without braces
BareBlock(b) ==
    <<Label(b.label)>> \o b.statements
        \o (IF b.terminator # None THEN <<b.terminator>> ELSE <<>>)

\* one function: bb0 with a terminator, then the blocks it may jump to
CfgTerminators ==
    {Goto("bb1"), Switch12, SwitchDup, Call12, SwitchCall, Ret}

CfgTargets ==
    [label : {"bb1", "bb2"}, statements : {<<>>, <<Asg>>},
     terminator : {None, Ret, Goto("bb1")}]

CfgTexts ==
    {<<FnA>> \o BareBlock([label |-> "bb0", statements |-> st, terminator |-> t])
            \o Flatten([i \in 1..Len(bs) |-> BareBlock(bs[i])]) :
        st \in {<<>>, <<Asg>>},
        t \in CfgTerminators,
        bs \in SeqUpTo(CfgTargets, MaxCfgBlocks)}

\* one function with one block: assignments and uses of the locals
DfgStatements == {Asg, Copy21, Add3, Field1, Self1, Dead1}

DfgTexts ==
    {<<FnA, Label("bb0")>> \o st \o t :
        st \in SeqUpTo(DfgStatements, MaxStmts),
        t \in {<<>>, <<Ret>>, <<Switch12>>}}

\* one function with two blocks in any textual order of their numbers
OrderBlocks ==
    [label : {"bb0", "bb1", "bb2", "bb10"},
     statements : SeqUpTo({Asg, Copy21, Copy15}, MaxOrderStmts),
     terminator : {None, Call12}]

OrderTexts ==
    {<<FnA>> \o BareBlock(b1) \o BareBlock(b2) :
        b1 \in OrderBlocks, b2 \in OrderBlocks}

\* fn <name>() {
FnNamed(name) == <<"fn", " ", name, "(", ")", " ", "{">>

\* a batch of functions: without a block, with one statement, and with
\* two blocks and a terminator that names bb1 twice
BatchBodies ==
    {<<>>,
     <<Label("bb0"), Asg>>,
     <<Label("bb0"), Asg, Copy21, SwitchDup, Label("bb1"), Ret>>}

BatchFunctions == [name : {"a", "b", "c"}, body : BatchBodies]

BatchTexts ==
    {Flatten([i \in 1..Len(fs) |-> <<FnNamed(fs[i].name)>> \o fs[i].body]) :
        fs \in SeqUpTo(BatchFunctions, MaxFns)}

\* a row an earlier run left in the collection
OldRow ==
    [vector |-> [i \in 1..EMBEDDING_DIMENSION |-> 0],
     function_name |-> "old",
     source_file |-> MIR_FILE_PATH,
     node_count |-> 1,
     edge_count |-> 0]

\* the state once MIRParser(path) has read the lines of the file, with a
\* database file that is new or that an earlier run with the same
\* configuration has left behind
InitRerun ==
    /\ lines \in DocTexts
    /\ EMBEDDING_DIMENSION = SmallDimension
    /\ pc = "parse"
    /\ functions = <<>>
    /\ \E existing \in BOOLEAN :
         /\ collections = IF existing THEN {MILVUS_COLLECTION_NAME} ELSE {}
         /\ create_calls = IF existing THEN 1 ELSE 0
         /\ store = IF existing THEN <<OldRow>> ELSE <<>>
    /\ skipped = <<>>
    /\ fn_i = 0
    /\ graph = EmptyGraph
    /\ node_map = <<>>
    /\ definitions = <<>>
    /\ error = "none"

\* a function whose blocks are written with bare labels
BareFunction(decls, blocks) ==
    <<FnA>> \o decls
        \o Flatten([i \in 1..Len(blocks) |-> BareBlock(blocks[i])])
        \o << <<"}">> >>

\* the blocks of the end-to-end scenario: bb0 with _1 = 10; and
\* goto -> bb1; and bb1 with return;
ScenarioBlocks ==
    <<[label |-> "bb0", statements |-> <<Asg10>>, terminator |-> Goto("bb1")],
      [label |-> "bb1", statements |-> <<>>, terminator |-> Ret]>>

\* the scenario as the docstring of MIRParser writes blocks, and with bare
\* labels, each with and without a declaration
ScenarioRenderings ==
    {DocFunction(d, ScenarioBlocks) : d \in {<<>>, <<DeclU8>>}}
    \cup {BareFunction(d, ScenarioBlocks) : d \in {<<>>, <<DeclU8>>}}

\* the scenario and its neighbours: functions of up to MaxDocBlocks blocks
\* in both ways of writing
NearScenarioBlocks ==
    [label : {"bb0", "bb1"}, statements : {<<>>, <<Asg10>>},
     terminator : {Ret, Goto("bb1")}]

ScenarioTexts ==
    ScenarioRenderings
    \cup {DocFunction(<<>>, bs) :
            bs \in SeqUpTo(NearScenarioBlocks, MaxDocBlocks) \ {<<>>}}
    \cup {BareFunction(<<>>, bs) :
            bs \in SeqUpTo(NearScenarioBlocks, MaxDocBlocks) \ {<<>>}}

\* a run with --dim 8 on one of these texts
InitScenario ==
    /\ lines \in ScenarioTexts
    /\ pc = "parse"
    /\ functions = <<>>
    /\ collections = {}
    /\ create_calls = 0
    /\ store = <<>>
    /\ skipped = <<>>
    /\ fn_i = 0
    /\ graph = EmptyGraph
    /\ node_map = <<>>
    /\ definitions = <<>>
    /\ error = "none"
    /\ EMBEDDING_DIMENSION = ScenarioDimension

\* functions that assign _1, that read _1 without assigning it, and that
\* do both
IsolationBodies ==
    {<<Label("bb0"), Asg>>,
     <<Label("bb0"), Copy21>>,
     <<Label("bb0"), Asg, Copy21>>}

IsolationTexts ==
    {Flatten([i \in 1..Len(fs) |-> <<FnNamed(fs[i].name)>> \o fs[i].body]) :
        fs \in SeqUpTo([name : {"a", "b"}, body : IsolationBodies], MaxFns)}

InitIsolation == InitWith(IsolationTexts)

\* one function whose body mixes declarations with a block and its lines
DeclLines == {DeclU8, DeclFn, DeclField, LetX, Label("bb0"), Asg, Ret}

DeclTexts == {<<FnA>> \o t : t \in SeqUpTo(DeclLines, MaxDeclBody)}

InitDecl == InitWith(DeclTexts)

\* one function whose block markers may repeat
ReopenLines == {Label("bb0"), Label("bb1"), Asg, Ret}

ReopenTexts == {<<FnA>> \o t : t \in SeqUpTo(ReopenLines, MaxReopenBody)}

InitReopen == InitWith(ReopenTexts)

InitParse == InitWith(StructTexts \cup BodyTexts)

InitDoc == InitWith(DocTexts)

InitCfg == InitWith(CfgTexts)

InitDfg == InitWith(DfgTexts)

InitOrder == InitWith(OrderTexts)

InitBatch == InitWith(BatchTexts)

SpecParse == InitParse /\ [][Next]_vars

SpecDoc == InitDoc /\ [][Next]_vars

SpecCfg == InitCfg /\ [][Next]_vars

SpecDfg == InitDfg /\ [][Next]_vars

SpecOrder == InitOrder /\ [][Next]_vars

SpecBatch == InitBatch /\ [][Next]_vars

SpecRerun == InitRerun /\ [][Next]_vars

SpecScenario == InitScenario /\ [][Next]_vars

SpecIsolation == InitIsolation /\ [][Next]_vars

SpecDecl == InitDecl /\ [][Next]_vars

SpecReopen == InitReopen /\ [][Next]_vars

-----------------------------------------------------------------------------
(* Vocabulary of the properties: the text as a reader sees it *)

\* parse has returned
Parsed == pc # "parse"

\* the positions of the function headers
HeaderIdx == {i \in 1..Len(lines) : FUNC_START(lines[i]) # None}

\* the last line of the span that the header at i opens
SpanEnd(i) ==
    IF \E j \in HeaderIdx : j > i
    THEN Min({j \in HeaderIdx : j > i}) - 1
    ELSE Len(lines)

SpanAt(i) == SubSeq(lines, i, SpanEnd(i))

\* the span of the textually last header with this name
LastHeaderOf(name) == Max({i \in HeaderIdx : FUNC_START(lines[i]) = name})

LastSpanOf(name) == SpanAt(LastHeaderOf(name))

\* the position in the span of the first line with an opening brace, 0 if none
BraceLine(span) ==
    IF \E i \in 1..Len(span) : "{" \in {span[i][j] : j \in 1..Len(span[i])}
    THEN Min({i \in 1..Len(span) : "{" \in {span[i][j] : j \in 1..Len(span[i])}})
    ELSE 0

\* the position of the first line after the brace line that is exactly "}",
\* Len(span) + 1 if there is none
ClosingLine(span) ==
    LET closers == {i \in (BraceLine(span) + 1)..Len(span) :
                       Strip(span[i]) = <<"}">>}
    IN IF closers = {} THEN Len(span) + 1 ELSE Min(closers)

\* the stripped body lines of a span
BodyOf(span) ==
    IF BraceLine(span) = 0 THEN <<>>
    ELSE [i \in 1..(ClosingLine(span) - BraceLine(span) - 1) |->
             Strip(span[BraceLine(span) + i])]

\* a line of the shape bbN: that is not taken as a declaration
IsLabelLine(s) == ~DECL_RE(s) /\ BLOCK_RE(s) # NoBlock

\* the labels bbN: of a sequence of lines, in textual order
LabelsOf(ls) ==
    LET ll == SelectSeq(ls, LAMBDA l : BLOCK_RE(Strip(l)) # NoBlock)
    IN [i \in 1..Len(ll) |-> BLOCK_RE(Strip(ll[i]))]

Range(q) == {q[i] : i \in 1..Len(q)}

\* the raw lines a record holds: declarations, statements, terminators
RecordRaws(rec) ==
    ( {rec.declarations[i].raw : i \in 1..Len(rec.declarations)}
      \cup UNION {Range(rec.basic_blocks[b].v.statements)
                    : b \in 1..Len(rec.basic_blocks)}
      \cup {rec.basic_blocks[b].v.terminator : b \in 1..Len(rec.basic_blocks)} )
    \ {None}

-----------------------------------------------------------------------------
(* MIRParser: properties *)

\* C1: for every function text with at least one block, written as in the
\* docstring of MIRParser (every block as bbN: { ... }), the keys of the
\* basic-block mapping of its record are exactly the bbN: labels of the
\* text, in the order of their first occurrence.
C1_KeysAreLabelsOfText ==
    Parsed =>
      \A f \in 1..Len(functions) :
        Keys(functions[f].v.basic_blocks)
          = FirstOccurrences(LabelsOf(LastSpanOf(functions[f].k)))

\* the record _parse_function_block builds from one span alone
RecordOf(span) == ParseFunctionBlock(<<>>, span)[1].v

\* C2: within one span, every line up to and including the first line with
\* an opening brace is skipped, the lines after it are body lines up to the
\* first line that is exactly a closing brace, and no line after that line
\* contributes a declaration, block, statement or terminator.
C2_OnlyBodyLinesContribute ==
    Parsed =>
      \A f \in 1..Len(functions) :
        LET rec == functions[f].v
            span == LastSpanOf(functions[f].k)
            body == BodyOf(span)
            decls == SelectSeq(body, DECL_RE)
        IN /\ [i \in 1..Len(rec.declarations) |-> rec.declarations[i].raw]
                = decls
           /\ KeySet(rec.basic_blocks)
                = {BLOCK_RE(l) : l \in {m \in Range(body) : IsLabelLine(m)}}
           /\ RecordRaws(rec) \subseteq Range(body)
           /\ rec = RecordOf(SubSeq(span, 1, ClosingLine(span) - 1))

\* a span with a line before the brace line, a block in the body and a
\* declaration after the closing brace
C2_Witness ==
    /\ Parsed
    /\ \E f \in 1..Len(functions) :
         LET span == LastSpanOf(functions[f].k)
         IN /\ BraceLine(span) > 1
            /\ functions[f].v.basic_blocks # <<>>
            /\ \E i \in (ClosingLine(span) + 1)..Len(span) :
                  DECL_RE(Strip(span[i]))

\* C3: every header line opens a span that owns the lines up to the next
\* header or the end of input; the keys of the mapping are the header names
\* (a and b for a text with the headers a and b), and the declarations and
\* blocks of each record come only from the lines of its own span.
C3_SpansAreIndependent ==
    Parsed =>
      /\ Keys(functions)
           = FirstOccurrences([i \in 1..Cardinality(HeaderIdx) |->
                 LET h == CHOOSE h \in HeaderIdx :
                            Cardinality({g \in HeaderIdx : g <= h}) = i
                 IN FUNC_START(lines[h])])
      /\ \A f \in 1..Len(functions) :
           LET rec == functions[f].v
               span == LastSpanOf(functions[f].k)
           IN /\ rec = RecordOf(span)
              /\ RecordRaws(rec) \subseteq {Strip(span[i]) : i \in 2..Len(span)}
              /\ KeySet(rec.basic_blocks) \subseteq Range(LabelsOf(span))

\* the headers a and b, each with a block of its own
C3_Witness ==
    /\ Parsed
    /\ Keys(functions) = << <<"a">>, <<"b">> >>
    /\ Keys(functions[1].v.basic_blocks) = <<"bb0">>
    /\ Keys(functions[2].v.basic_blocks) = <<"bb1">>

\* the headers that are followed by another header or by the end of input
Bodyless == {i \in HeaderIdx : SpanEnd(i) = i}

\* C4 as stated: a function with no body lines has no entry in the mapping.
C4_BodylessIsDropped ==
    Parsed =>
      \A i \in Bodyless :
        (\A j \in HeaderIdx :
            FUNC_START(lines[j]) = FUNC_START(lines[i]) => j \in Bodyless)
        => FUNC_START(lines[i]) \notin KeySet(functions)

\* C4 (amended): a function with no body lines is kept: the mapping has an
\* entry for its name and, when it is the last span of that name, the entry
\* has no declarations and no blocks.
C4_BodylessIsKeptEmpty ==
    Parsed =>
      \A i \in Bodyless :
        /\ FUNC_START(lines[i]) \in KeySet(functions)
        /\ i = LastHeaderOf(FUNC_START(lines[i]))
             => Val(functions, FUNC_START(lines[i]))
                  = [declarations |-> <<>>, basic_blocks |-> <<>>]

\* a header directly followed by another header, and a header at the end
C4_Witness ==
    /\ Parsed
    /\ \E i \in Bodyless : i < Len(lines)
    /\ \E i \in Bodyless : i = Len(lines)
    /\ Len(functions) = 2

\* the lines of the body that follow the last marker of label b, up to the
\* next marker; declarations are left out when skipDecl holds
SegmentOf(body, b, skipDecl) ==
    LET start == Max({i \in 1..Len(body) :
                        IsLabelLine(body[i]) /\ BLOCK_RE(body[i]) = b})
        stops == {i \in (start + 1)..Len(body) : IsLabelLine(body[i])}
        stop == IF stops = {} THEN Len(body) + 1 ELSE Min(stops)
        seg == SubSeq(body, start + 1, stop - 1)
    IN SelectSeq(seg, LAMBDA l :
          /\ l # <<>>
          /\ ~StartsWith(l, <<"//">>)
          /\ ~(skipDecl /\ DECL_RE(l)))

\* a line with one of the markers ->, return;, unreachable;, resume;, abort;
HasMarker(l) ==
    \/ "->" \in Range(l)
    \/ \E i \in 1..(Len(l) - 1) :
          l[i] \in {"return", "unreachable", "resume", "abort"} /\ l[i + 1] = ";"

\* the content of block b is read off its segment: the lines without a
\* marker are the statements, the last line with a marker is the terminator
BlockReadsOff(blk, seg) ==
    LET marked == SelectSeq(seg, HasMarker)
    IN /\ blk.statements = SelectSeq(seg, LAMBDA l : ~HasMarker(l))
       /\ blk.terminator
            = IF marked = <<>> THEN None ELSE marked[Len(marked)]

\* the graph of function fn_i - 1 has been built
Built == pc \in {"loop", "done"} /\ fn_i > 1

BuiltRecord == functions[fn_i - 1].v

\* the handles of the nodes of a block with a given type
NodesOf(block, type) ==
    {h \in 0..(Len(graph.nodes) - 1) :
        graph.nodes[h + 1].block = block /\ graph.nodes[h + 1].type = type}

\* one statement node per statement and one terminator node per terminator
NodesMatchRecord ==
    \A b \in 1..Len(BuiltRecord.basic_blocks) :
      LET blk == BuiltRecord.basic_blocks[b] IN
      /\ Cardinality(NodesOf(blk.k, "statement")) = Len(blk.v.statements)
      /\ Cardinality(NodesOf(blk.k, "terminator"))
           = IF blk.v.terminator = None THEN 0 ELSE 1

\* C5 as stated: inside an open block every non-empty non-comment line is
\* the terminator iff it has a marker, else a statement; the last marked
\* line is the terminator.
C5_EveryLineClassified ==
    Parsed =>
      \A f \in 1..Len(functions) :
        LET rec == functions[f].v
            body == BodyOf(LastSpanOf(functions[f].k))
        IN \A b \in 1..Len(rec.basic_blocks) :
             BlockReadsOff(rec.basic_blocks[b].v,
                           SegmentOf(body, rec.basic_blocks[b].k, FALSE))

\* C5 (amended): inside an open block every non-empty non-comment line
\* that is not a declaration is the terminator iff it has a marker, else it
\* is appended to the statements in order; the block's terminator is the
\* last marked line and the earlier marked lines are dropped; the graph has
\* one statement node per statement and one terminator node per terminator,
\* so a block whose only content is return; gives one terminator node and
\* no statement node.
C5_NonDeclLineClassified ==
    /\ Parsed =>
         \A f \in 1..Len(functions) :
           LET rec == functions[f].v
               body == BodyOf(LastSpanOf(functions[f].k))
           IN \A b \in 1..Len(rec.basic_blocks) :
                BlockReadsOff(rec.basic_blocks[b].v,
                              SegmentOf(body, rec.basic_blocks[b].k, TRUE))
    /\ Built => NodesMatchRecord

\* a built block with two marked lines and a statement, and a block whose
\* only content is return;
C5_Witness ==
    /\ Built
    /\ lines = <<FnA, Label("bb0"), Goto("bb1"), Ret, Asg>>
    /\ NodesOf("bb0", "terminator") = {1}
    /\ NodesOf("bb0", "statement") = {0}
    /\ graph.nodes[2].raw = Ret

-----------------------------------------------------------------------------
(* CPGBuilder: vocabulary of the properties *)

Handles == 0..(Len(graph.nodes) - 1)

Raw(h) == graph.nodes[h + 1].raw

BlockOf(h) == graph.nodes[h + 1].block

\* a line LHS = RHS; whose left-hand side starts with a local
IsAssignment(raw) == raw[1] \in Locals /\ "=" \in Range(raw)

\* the text right of the first = sign
RhsOf(raw) ==
    SubSeq(raw, Min({i \in 1..Len(raw) : raw[i] = "="}) + 1, Len(raw))

\* the locals a node reads
Reads(raw) ==
    IF IsAssignment(raw) THEN Range(RhsOf(raw)) \cap Locals
    ELSE Range(raw) \cap Locals

\* d is handled before h when the data-flow edges are built: blocks by
\* number, inside a block statements in order and then the terminator
Before(d, h) ==
    \/ BlockNum(BlockOf(d)) < BlockNum(BlockOf(h))
    \/ BlockOf(d) = BlockOf(h) /\ d < h

\* the nodes before h that assign the local v (with or without a suffix)
WritersBefore(h, v) ==
    {d \in Handles : Before(d, h) /\ IsAssignment(Raw(d)) /\ Raw(d)[1] = v}

\* the most recent of them
LastWriter(h, v) ==
    CHOOSE d \in WritersBefore(h, v) :
      \A c \in WritersBefore(h, v) : c = d \/ Before(c, d)

\* the number of parallel DFG edges from d to h
DfgCount(d, h) ==
    CopiesIn([src |-> d, dst |-> h, type |-> "DFG"], graph.edges)

\* the number of parallel CFG edges with this label from s to t
CfgCount(s, t, label) ==
    CopiesIn([src |-> s, dst |-> t, type |-> "CFG", label |-> label],
             graph.edges)

\* the number of CFG edges that leave s
CfgOut(s) ==
    LET out == {e \in DOMAIN graph.edges : e.type = "CFG" /\ e.src = s}
    IN BagCardinality([e \in out |-> graph.edges[e]])

\* the terminator node of a block
TermNode(b) == CHOOSE h \in NodesOf(b, "terminator") : TRUE

\* the node an edge to block b ends at: its first statement, else its
\* terminator, else nothing
Entry(b) ==
    IF NodesOf(b, "statement") # {} THEN Min(NodesOf(b, "statement"))
    ELSE IF NodesOf(b, "terminator") # {} THEN TermNode(b)
    ELSE NoNode

\* the built blocks that have a terminator
Terminated ==
    {b \in 1..Len(BuiltRecord.basic_blocks) :
        BuiltRecord.basic_blocks[b].v.terminator # None}

-----------------------------------------------------------------------------
(* CPGBuilder: properties *)

\* C6: for every assignment node and every distinct local in its right-hand
\* side that has a definition at that moment there is exactly one DFG edge
\* from the defining node to the node, however often the local occurs;
\* locals without a definition add no edge.
C6_OneEdgePerReadLocal ==
    Built =>
      \A h \in Handles :
        IsAssignment(Raw(h)) =>
          \A d \in Handles :
            DfgCount(d, h)
              = Cardinality({v \in Reads(Raw(h)) :
                   WritersBefore(h, v) # {} /\ LastWriter(h, v) = d})

\* _1 = 5; followed by an assignment that reads _1 twice and the undefined
\* _2: one edge between the two nodes
C6_Witness ==
    /\ Built
    /\ Len(graph.nodes) = 2
    /\ Raw(0) = Asg /\ Raw(1) = Add3
    /\ DfgCount(0, 1) = 1
    /\ BagCardinality(graph.edges) = 1

\* C7: the definitions table is last-writer-wins on the base local: every
\* DFG edge into a node comes from the most recent earlier node that
\* assigned a local the node reads, never from an older assignment, and at
\* the end the table maps every assigned local to its last assignment.
C7_LastWriterWins ==
    Built =>
      /\ \A e \in DOMAIN graph.edges :
           e.type = "DFG" =>
             \E v \in Reads(Raw(e.dst)) :
               /\ WritersBefore(e.dst, v) # {}
               /\ e.src = LastWriter(e.dst, v)
      /\ \A v \in DOMAIN definitions :
           /\ IsAssignment(Raw(definitions[v])) /\ Raw(definitions[v])[1] = v
           /\ \A d \in Handles :
                IsAssignment(Raw(d)) /\ Raw(d)[1] = v
                  => d = definitions[v] \/ Before(d, definitions[v])

\* _1 = 5; then _1.0 = _3; then _2 = _1; : the edge into the read comes
\* from the second assignment only
C7_Witness ==
    /\ Built
    /\ Len(graph.nodes) = 3
    /\ Raw(0) = Asg /\ Raw(1) = Field1 /\ Raw(2) = Copy21
    /\ DfgCount(1, 2) = 1
    /\ DfgCount(0, 2) = 0

\* C8: a terminator goto -> bbX; of block B, where bbX has a statement,
\* gives exactly one CFG edge out of B's terminator node: labelled goto, to
\* the first statement node of bbX.
C8_GotoEdge ==
    Built =>
      \A b \in Terminated :
        LET blk == BuiltRecord.basic_blocks[b] IN
        \A x \in BlockLabels :
          /\ blk.v.terminator = Goto(x)
          /\ NodesOf(x, "statement") # {}
          => /\ CfgOut(TermNode(blk.k)) = 1
             /\ CfgCount(TermNode(blk.k), Min(NodesOf(x, "statement")),
                         "goto") = 1

\* bb0 ends in goto -> bb1; and bb1 has a statement and a terminator
C8_Witness ==
    /\ Built
    /\ BuiltRecord.basic_blocks[1].v.terminator = Goto("bb1")
    /\ NodesOf("bb1", "statement") # {}
    /\ NodesOf("bb1", "terminator") # {}
    /\ CfgCount(TermNode("bb0"), Min(NodesOf("bb1", "statement")), "goto") = 1

\* the positions inside the first bracket [ ... ] of a line
BracketPositions(raw) ==
    LET open == Min({i \in 1..Len(raw) : raw[i] = "["})
        close == Min({i \in (open + 1)..Len(raw) : raw[i] = "]"})
    IN (open + 1)..(close - 1)

\* a terminator switchInt ... -> [ ... ]
IsSwitch(raw) == raw[1] = "switchInt" /\ "[" \in Range(raw)

\* C9: a switchInt terminator gives one CFG edge labelled switch for every
\* bbN token of its bracket whose block has a node, to the entry node of
\* that block; a label that occurs twice gives two parallel edges, the
\* otherwise target counts like the others, and there is no other switch
\* edge.  For [0: bb1, otherwise: bb2] with both blocks present that is two.
C9_SwitchEdges ==
    Built =>
      \A b \in Terminated :
        LET blk == BuiltRecord.basic_blocks[b]
            raw == blk.v.terminator
        IN IsSwitch(raw) =>
             \A t \in Handles :
               CfgCount(TermNode(blk.k), t, "switch")
                 = Cardinality({i \in BracketPositions(raw) :
                      raw[i] \in BlockLabels /\ Entry(raw[i]) = t})

\* [0: bb1, 1: bb1, otherwise: bb2] with both blocks present: two parallel
\* edges to bb1 and one to bb2
C9_Witness ==
    /\ Built
    /\ BuiltRecord.basic_blocks[1].v.terminator = SwitchDup
    /\ Entry("bb1") # NoNode /\ Entry("bb2") # NoNode
    /\ CfgCount(TermNode("bb0"), Entry("bb1"), "switch") = 2
    /\ CfgCount(TermNode("bb0"), Entry("bb2"), "switch") = 1

\* a terminator with -> [return: bbX, unwind: bbY];
IsCall(raw) ==
    Contains(raw, <<"[", "return", ":">>) /\ Contains(raw, <<"unwind", ":">>)

\* the label that follows the keyword and its colon
TargetAfter(raw, keyword) ==
    raw[SkipWs(raw, Min({i \in 1..Len(raw) : raw[i] = keyword}) + 2)]

\* C10: a terminator with -> [return: bbX, unwind: bbY]; gives, out of the
\* terminator node, one CFG edge labelled return to the entry node of bbX
\* and one labelled unwind to the entry node of bbY, each only if the
\* target block has a node, and no other return or unwind edge.
C10_CallEdges ==
    Built =>
      \A b \in Terminated :
        LET blk == BuiltRecord.basic_blocks[b]
            raw == blk.v.terminator
        IN IsCall(raw) =>
             \A t \in Handles :
               /\ CfgCount(TermNode(blk.k), t, "return")
                    = IF Entry(TargetAfter(raw, "return")) = t THEN 1 ELSE 0
               /\ CfgCount(TermNode(blk.k), t, "unwind")
                    = IF Entry(TargetAfter(raw, "unwind")) = t THEN 1 ELSE 0

\* _5 = foo(move _1) -> [return: bb1, unwind: bb2]; with both blocks present
C10_Witness ==
    /\ Built
    /\ BuiltRecord.basic_blocks[1].v.terminator = Call12
    /\ Entry("bb1") # NoNode /\ Entry("bb2") # NoNode
    /\ CfgCount(TermNode("bb0"), Entry("bb1"), "return") = 1
    /\ CfgCount(TermNode("bb0"), Entry("bb2"), "unwind") = 1

\* the number of targets a terminator names whose block has a node: the
\* label after goto ->, the bbN tokens of a switchInt bracket, the labels
\* after return: and unwind:
LiveTargets(raw) ==
    Cardinality({x \in BlockLabels : raw = Goto(x) /\ Entry(x) # NoNode})
    + (IF IsSwitch(raw)
       THEN Cardinality({i \in BracketPositions(raw) :
                raw[i] \in BlockLabels /\ Entry(raw[i]) # NoNode})
       ELSE 0)
    + (IF IsCall(raw)
       THEN Cardinality({k \in {"return", "unwind"} :
                Entry(TargetAfter(raw, k)) # NoNode})
       ELSE 0)

\* C11: a CFG edge to a block ends at the block's first statement node if
\* it has one, else at its terminator node; a target that has no node (an
\* empty block or a label that is no block) gives no edge and no error, and
\* the other targets of the same terminator still get their edges.
C11_TargetResolution ==
    Built =>
      /\ \A e \in DOMAIN graph.edges :
           e.type = "CFG" =>
             e.dst \in Handles /\ e.dst = Entry(BlockOf(e.dst))
      /\ \A b \in Terminated :
           LET blk == BuiltRecord.basic_blocks[b]
           IN CfgOut(TermNode(blk.k)) = LiveTargets(blk.v.terminator)

\* switchInt -> [0: bb1, otherwise: bb2] where bb1 is a block without a
\* line and bb2 has a terminator only: the one edge ends at the terminator
\* node of bb2
C11_Witness ==
    /\ Built
    /\ pc = "done"
    /\ BuiltRecord.basic_blocks[1].v.terminator = Switch12
    /\ "bb1" \in KeySet(BuiltRecord.basic_blocks) /\ Entry("bb1") = NoNode
    /\ NodesOf("bb2", "statement") = {}
    /\ NodesOf("bb2", "terminator") # {}
    /\ CfgOut(TermNode("bb0")) = 1
    /\ CfgCount(TermNode("bb0"), TermNode("bb2"), "switch") = 1

\* the payloads of one block in creation order: its statements, then its
\* terminator
BlockPayloads(blk) ==
    [i \in 1..Len(blk.v.statements) |->
        [type |-> "statement", raw |-> blk.v.statements[i], block |-> blk.k]]
    \o (IF blk.v.terminator # None
        THEN <<[type |-> "terminator", raw |-> blk.v.terminator,
                block |-> blk.k]>>
        ELSE <<>>)

\* the number of nodes of the blocks before position b of the record
NodesBefore(bbs, b) ==
    Len(Flatten([j \in 1..(b - 1) |-> BlockPayloads(bbs[j])]))

\* C12: the nodes are created block by block in the insertion order of the
\* record, per block one statement node per statement in sequence and then
\* the terminator node if there is one; the handles are 0..n-1 in creation
\* order, and the lookup maps (block, i) and (block, terminator) each to
\* its own handle, all distinct, and holds nothing else.
C12_NodesInInsertionOrder ==
    Built =>
      LET bbs == BuiltRecord.basic_blocks
      IN /\ graph.nodes = Flatten([b \in 1..Len(bbs) |-> BlockPayloads(bbs[b])])
         /\ \A b \in 1..Len(bbs) :
              LET n == Len(bbs[b].v.statements)
              IN /\ \A i \in 0..(n - 1) :
                      MapGet(node_map, <<bbs[b].k, i>>) = NodesBefore(bbs, b) + i
                 /\ MapGet(node_map, <<bbs[b].k, n>>) = NoNode
                 /\ MapGet(node_map, <<bbs[b].k, Term>>)
                      = IF bbs[b].v.terminator # None
                        THEN NodesBefore(bbs, b) + n ELSE NoNode
         /\ {node_map[key] : key \in DOMAIN node_map} = Handles
         /\ Cardinality(DOMAIN node_map) = Len(graph.nodes)

\* bb0, bb2 and bb1 in this textual order, each with a statement and a
\* terminator: six nodes, those of bb2 before those of bb1
C12_Witness ==
    /\ Built
    /\ Keys(BuiltRecord.basic_blocks) = <<"bb0", "bb2", "bb1">>
    /\ Len(graph.nodes) = 6
    /\ node_map[<<"bb0", 0>>] = 0 /\ node_map[<<"bb0", Term>>] = 1
    /\ node_map[<<"bb2", 0>>] = 2 /\ node_map[<<"bb2", Term>>] = 3
    /\ node_map[<<"bb1", 0>>] = 4 /\ node_map[<<"bb1", Term>>] = 5

\* C13: the data-flow edges are built over the blocks in ascending order
\* of the integer after bb, not in textual order, inside a block over the
\* statements and then the terminator: every DFG edge runs from a node
\* handled earlier in that order, and an assignment node that reads a local
\* assigned earlier in that order has the edge from its last assignment.
\* With bb1 written before bb0, an assignment in bb0 reaches a read in bb1
\* (from the higher handle to the lower) and an assignment in bb1 does not
\* reach a read in bb0.
C13_DfgInBlockNumberOrder ==
    Built =>
      /\ \A d \in Handles : \A h \in Handles :
           DfgCount(d, h) > 0 => Before(d, h)
      /\ \A h \in Handles :
           IsAssignment(Raw(h)) =>
             \A v \in Reads(Raw(h)) :
               WritersBefore(h, v) # {} =>
                 DfgCount(LastWriter(h, v), h) = 1

\* bb1 with _2 = _1; written before bb0 with _1 = 5; : the edge runs from
\* handle 1 to handle 0
C13_Witness ==
    /\ Built
    /\ lines = <<FnA, Label("bb1"), Copy21, Label("bb0"), Asg>>
    /\ BlockOf(0) = "bb1" /\ BlockOf(1) = "bb0"
    /\ DfgCount(1, 0) = 1
    /\ BagCardinality(graph.edges) = 1

-----------------------------------------------------------------------------
(* VectorizerAndStorer, process_functions: properties *)

\* the vector of the configured length made of a natural vector of length n
Fitted(n) ==
    [i \in 1..EMBEDDING_DIMENSION |->
        IF i <= n THEN NaturalEmbedding(n)[i] ELSE 0]

\* C14: whatever the natural output length of the embedding algorithm,
\* the vector of a non-empty graph has exactly the configured length: a
\* longer one is cut to its first components, unchanged; a shorter one
\* keeps its components and is padded with zeros on the right; one of the
\* right length is left as it is.  No length raises.
C14_VectorHasConfiguredLength ==
    \A k \in 1..Len(store) :
      /\ Len(store[k].vector) = EMBEDDING_DIMENSION
      /\ \E n \in 1..MaxNatural : store[k].vector = Fitted(n)

\* a batch whose first vector was padded and whose second was not
C14_Witness ==
    /\ pc = "done"
    /\ Len(store) = 2
    /\ store[1].vector[EMBEDDING_DIMENSION] = 0
    /\ store[2].vector = NaturalEmbedding(EMBEDDING_DIMENSION)

\* the loop of process_functions has been entered
InLoop == pc \in {"loop", "done", "aborted"}

\* the number of statement and terminator lines of a record
NodeTotal(rec) ==
    Len(Flatten([b \in 1..Len(rec.basic_blocks) |->
                    BlockPayloads(rec.basic_blocks[b])]))

\* the parsed function of this name has no statement and no terminator
HasNoNode(fn) == NodeTotal(Val(functions, fn)) = 0

HasNode(fn) == ~HasNoNode(fn)

\* the names of the functions whose iteration has ended normally
Handled == SubSeq(Keys(functions), 1, fn_i - 1)

\* C15: for a function whose graph has no node nothing is embedded and
\* nothing is inserted: it is reported as skipped and the loop goes on
\* with the next function; the skipped functions are exactly the handled
\* ones without a node, no stored row belongs to one, and the batch is
\* never aborted at one.
C15_EmptyGraphIsSkipped ==
    InLoop =>
      /\ skipped = SelectSeq(Handled, HasNoNode)
      /\ \A k \in 1..Len(store) : HasNode(store[k].function_name)
      /\ pc = "aborted" => HasNode(functions[fn_i].k)
      /\ pc = "done" => Len(Handled) = Len(functions)

\* a function without a block, then one with a statement: the first is
\* skipped, the second is stored
C15_Witness ==
    /\ pc = "done"
    /\ lines = <<FnNamed("a"), FnNamed("b"), Label("bb0"), Asg>>
    /\ skipped = <<"a">>
    /\ Len(store) = 1 /\ store[1].function_name = "b"

\* the graph the builder makes of the parsed function of this name
GraphOf(fn) == BuildGraph(Val(functions, fn)).graph

\* the number of edges of the built graph with this type
EdgesOfType(type) ==
    LET es == {e \in DOMAIN graph.edges : e.type = type}
    IN BagCardinality([e \in es |-> graph.edges[e]])

\* C16: as long as no step has failed, the functions are handled one by
\* one in the order the parser emitted them, each once; the stored rows
\* are, in that order, one per handled function with at least one node;
\* a row carries the function's name, the path of the MIR file, and as
\* node_count and edge_count the numbers of nodes and of edges (CFG and
\* DFG, parallel edges counted) of that function's own graph.
C16_OneRowPerFunctionInOrder ==
    (InLoop /\ error = "none") =>
      /\ [k \in 1..Len(store) |-> store[k].function_name]
           = SelectSeq(Handled, HasNode)
      /\ Len(store) + Len(skipped) = fn_i - 1
      /\ pc = "done" => fn_i - 1 = Len(functions)
      /\ \A k \in 1..Len(store) :
           LET row == store[k]
               g == GraphOf(row.function_name)
           IN /\ row.source_file = MIR_FILE_PATH
              /\ row.node_count = NodeTotal(Val(functions, row.function_name))
              /\ row.node_count = Len(g.nodes)
              /\ row.edge_count = BagCardinality(g.edges)
      /\ (fn_i > 1 /\ HasNode(functions[fn_i - 1].k)) =>
           /\ store[Len(store)].node_count = Len(graph.nodes)
           /\ store[Len(store)].edge_count
                = EdgesOfType("CFG") + EdgesOfType("DFG")

\* a function without a node, then one with four nodes whose terminator
\* has two parallel edges to bb1: one row, for the second, with the counts
\* of its graph
C16_Witness ==
    /\ pc = "done"
    /\ Keys(functions) = <<"b", "a">>
    /\ skipped = <<"b">>
    /\ Len(store) = 1
    /\ store[1].function_name = "a"
    /\ store[1].node_count = 4
    /\ CfgCount(2, 3, "switch") = 2
    /\ store[1].edge_count = 2 + EdgesOfType("DFG")
    /\ EdgesOfType("DFG") > 0

\* C17: a failure while the graph of one function is built or embedded is
\* caught for that function and reported, and every remaining function is
\* still built, embedded and inserted: such a failure never ends the batch.
C17_EmbeddingFailureIsIsolated ==
    error = "embed" => pc \in {"loop", "done"}

\* C18: when the insert of some function fails, the error leaves
\* process_functions and ends the batch: the rows stored before stay as
\* they are, one per earlier function with a node and in order, and no
\* later function is built, embedded or inserted, so the last graph built
\* is the one of the function whose insert failed.
C18_InsertFailureAborts ==
    error = "insert" =>
      /\ pc = "aborted"
      /\ fn_i \in 1..Len(functions)
      /\ HasNode(functions[fn_i].k)
      /\ graph = GraphOf(functions[fn_i].k)
      /\ [k \in 1..Len(store) |-> store[k].function_name]
           = SelectSeq(Handled, HasNode)
      /\ skipped = SelectSeq(Handled, HasNoNode)

\* three functions with a node each: the first is stored, the insert of
\* the second fails, the third is never handled
C18_Witness ==
    /\ error = "insert"
    /\ Len(functions) = 3
    /\ \A f \in 1..3 : HasNode(functions[f].k)
    /\ fn_i = 2
    /\ Len(store) = 1 /\ store[1].function_name = functions[1].k

\* a step that calls setup_milvus_collection ends with the collection in
\* place, created once, the rows untouched, and the pipeline going on
SetupStepKeepsSink ==
    pc \in {"setup", "process"} =>
      /\ collections' = {MILVUS_COLLECTION_NAME}
      /\ create_calls' = 1
      /\ store' = store
      /\ error' = "none"
      /\ pc' = (IF pc = "setup" THEN "process" ELSE "loop")

\* C19: the collection is created only if there is none of its name: of
\* the calls of setup_milvus_collection with one configuration (one from
\* main, one more from process_functions) at most the first creates it,
\* on a database where it exists none does, so it is created exactly once
\* in all; every call leaves the collection in place, raises nothing and
\* leaves the stored rows as they are.
C19_SetupIsIdempotent == [][SetupStepKeepsSink]_vars

\* both calls have been made on a database that had the collection and a
\* row in it
C19_Witness ==
    /\ pc = "loop"
    /\ fn_i = 1
    /\ collections = {MILVUS_COLLECTION_NAME}
    /\ create_calls = 1
    /\ store = <<OldRow>>

-----------------------------------------------------------------------------
(* MIRParser: malformed lines *)

\* the text without its line i
Without(ls, i) == SubSeq(ls, 1, i - 1) \o SubSeq(ls, i + 1, Len(ls))

\* line i lies in the body of a function after a block marker
OpenBlockAt(i) ==
    /\ \E h \in HeaderIdx : h < i
    /\ LET h == Max({j \in HeaderIdx : j < i})
           span == SpanAt(h)
           p == i - h + 1
       IN /\ BraceLine(span) # 0
          /\ BraceLine(span) < p /\ p < ClosingLine(span)
          /\ \E q \in (BraceLine(span) + 1)..(p - 1) :
               IsLabelLine(Strip(span[q]))

\* line i has none of the recognised shapes: it is no header, has no
\* brace that opens or closes a body, is no declaration and no block
\* marker, and is no statement or terminator inside an open block
NoShape(i) ==
    LET s == Strip(lines[i])
    IN /\ FUNC_START(lines[i]) = None
       /\ "{" \notin Range(lines[i])
       /\ s # <<"}">>
       /\ ~DECL_RE(s)
       /\ BLOCK_RE(s) = NoBlock
       /\ s = <<>> \/ StartsWith(s, <<"//">>) \/ ~OpenBlockAt(i)

\* C20: on every sequence of lines parse returns, without raising, a
\* mapping with a record for every function header of the text; a line
\* that has none of the recognised shapes is skipped: the records are the
\* ones the text without that line gives, so the line changes no
\* declaration list and no block of any record.
C20_MalformedLinesAreSkipped ==
    Parsed =>
      /\ KeySet(functions) = {FUNC_START(lines[i]) : i \in HeaderIdx}
      /\ \A i \in 1..Len(lines) :
           NoShape(i) => functions = parse(Without(lines, i))

\* an assignment before the first block marker and a comment with return;
\* inside the block: the record has the block with its terminator only
C20_Witness ==
    /\ Parsed
    /\ lines = <<FnA, Asg, Label("bb0"), Comment, Ret>>
    /\ NoShape(2) /\ NoShape(4)
    /\ functions = <<[k |-> "a",
                      v |-> [declarations |-> <<>>,
                             basic_blocks |->
                               <<[k |-> "bb0",
                                  v |-> [statements |-> <<>>,
                                         terminator |-> Ret]]>>]]>>

-----------------------------------------------------------------------------
(* End to end *)

\* C21: one function with the blocks bb0 (_1 = 10; and goto -> bb1;) and
\* bb1 (return;), parsed and built, has a graph of exactly 3 nodes, exactly
\* 1 CFG edge (labelled goto, from the terminator of bb0 to the terminator
\* of bb1) and no DFG edge, and with the dimension 8 its stored vector has
\* exactly 8 components.
C21_EndToEndScenario ==
    (Built /\ lines \in ScenarioRenderings) =>
      /\ Len(graph.nodes) = 3
      /\ EdgesOfType("CFG") = 1
      /\ CfgCount(TermNode("bb0"), TermNode("bb1"), "goto") = 1
      /\ EdgesOfType("DFG") = 0
      /\ Len(store) = 1
      /\ Len(store[1].vector) = ScenarioDimension

\* the same for the scenario written with bare labels only
ScenarioHoldsWithBareLabels ==
    (Built /\ \E d \in {<<>>, <<DeclU8>>} :
                 lines = BareFunction(d, ScenarioBlocks)) =>
      /\ Len(graph.nodes) = 3
      /\ EdgesOfType("CFG") = 1
      /\ CfgCount(TermNode("bb0"), TermNode("bb1"), "goto") = 1
      /\ EdgesOfType("DFG") = 0
      /\ Len(store) = 1
      /\ Len(store[1].vector) = ScenarioDimension

-----------------------------------------------------------------------------
(* CPGBuilder: one builder per function *)

\* C22: the graph, the node lookup and the definitions table belong to
\* the builder of one function and start empty for it: what is built for
\* a function is what is built for it alone, whichever functions came
\* before it in the batch; every DFG edge starts at a node of the same
\* function that assigns a local its target reads, and the table holds
\* assignments of the same function only, so a local assigned in one
\* function gives no edge in another that uses the same name.
C22_BuilderStateIsPerFunction ==
    Built =>
      LET alone == BuildGraph(BuiltRecord)
      IN /\ graph = alone.graph
         /\ node_map = alone.node_map
         /\ definitions = alone.definitions
         /\ \A e \in DOMAIN graph.edges :
              /\ e.src \in Handles /\ e.dst \in Handles
              /\ e.type = "DFG" =>
                   /\ IsAssignment(Raw(e.src))
                   /\ Raw(e.src)[1] \in Reads(Raw(e.dst))
         /\ \A v \in DOMAIN definitions :
              /\ definitions[v] \in Handles
              /\ Raw(definitions[v])[1] = v

\* function a assigns _1, function b after it reads _1 and never assigns
\* it: the graph of b has its one node and no edge
C22_Witness ==
    /\ pc = "done"
    /\ lines = <<FnNamed("a"), Label("bb0"), Asg,
                 FnNamed("b"), Label("bb0"), Copy21>>
    /\ fn_i = 3
    /\ Len(graph.nodes) = 1 /\ Raw(0) = Copy21
    /\ graph.edges = EmptyBag
    /\ DOMAIN definitions = {"_2"}

-----------------------------------------------------------------------------
(* Declarations *)

\* a stripped line let [mut] _N[.field|[idx]]: TYPE; as a reader sees it
IsDeclShape(s) ==
    /\ Len(s) >= 5
    /\ s[1] = "let" /\ s[2] = WS
    /\ s[Len(s)] = ";"
    /\ \E p \in {3, 5} :
         /\ p = 5 => (s[3] = "mut" /\ s[4] = WS)
         /\ p + 1 < Len(s)
         /\ s[p] \in Locals
         /\ \/ s[p + 1] = ":"
            \/ s[p + 1] = "." /\ \E c \in (p + 2)..(Len(s) - 1) : s[c] = ":"
            \/ s[p + 1] = "[" /\ \E c \in (p + 3)..(Len(s) - 1) :
                                    s[c - 1] = "]" /\ s[c] = ":"

\* C23: every body line of the shape let [mut] _N[.field|[idx]]: TYPE; is
\* appended to the declarations of its function, in textual order, and is
\* never a statement or the terminator of a block; the declarations have
\* no part in the graph: the nodes and edges are those of the record
\* without its declarations.
C23_DeclarationsAreMetadata ==
    /\ Parsed =>
         \A f \in 1..Len(functions) :
           LET rec == functions[f].v
               body == BodyOf(LastSpanOf(functions[f].k))
           IN /\ [i \in 1..Len(rec.declarations) |-> rec.declarations[i].raw]
                   = SelectSeq(body, IsDeclShape)
              /\ \A b \in 1..Len(rec.basic_blocks) :
                   LET blk == rec.basic_blocks[b].v
                   IN /\ \A i \in 1..Len(blk.statements) :
                           ~IsDeclShape(blk.statements[i])
                      /\ blk.terminator # None => ~IsDeclShape(blk.terminator)
    /\ Built =>
         /\ graph = BuildGraph([declarations |-> <<>>,
                                basic_blocks |-> BuiltRecord.basic_blocks]).graph
         /\ \A h \in Handles : ~IsDeclShape(Raw(h))

\* let mut _1: u8; before the block and let _2: fn() -> u8; inside it,
\* followed by _1 = 5; : two declarations in this order and one node
C23_Witness ==
    /\ Built
    /\ lines = <<FnA, DeclU8, Label("bb0"), DeclFn, Asg>>
    /\ Len(BuiltRecord.declarations) = 2
    /\ BuiltRecord.declarations[1].raw = Strip(DeclU8)
    /\ BuiltRecord.declarations[2].raw = Strip(DeclFn)
    /\ Len(graph.nodes) = 1 /\ Raw(0) = Asg

-----------------------------------------------------------------------------
(* CPGBuilder: the patterns of a terminator *)

\* the number of CFG edges with this label that leave s
CfgOutLabelled(s, label) ==
    LET out == {e \in DOMAIN graph.edges :
                   e.type = "CFG" /\ e.src = s /\ e.label = label}
    IN BagCardinality([e \in out |-> graph.edges[e]])

\* the number of targets with a node that one pattern finds in a terminator
LiveTargetsOf(raw, label) ==
    CASE label = "goto" ->
           Cardinality({x \in BlockLabels : raw = Goto(x) /\ Entry(x) # NoNode})
      [] label = "switch" ->
           IF IsSwitch(raw)
           THEN Cardinality({i \in BracketPositions(raw) :
                    raw[i] \in BlockLabels /\ Entry(raw[i]) # NoNode})
           ELSE 0
      [] label \in {"return", "unwind"} ->
           IF IsCall(raw) /\ Entry(TargetAfter(raw, label)) # NoNode
           THEN 1 ELSE 0

\* C24: the patterns goto, switchInt bracket and return/unwind bracket are
\* looked for one by one in every terminator and each one that matches
\* adds its edges whatever the others do: a switchInt whose bracket is
\* [return: bbX, unwind: bbY] has its switch edges and its return and
\* unwind edges, and a terminator that matches none, like return;, has no
\* outgoing CFG edge.
C24_PatternsAreIndependent ==
    Built =>
      \A b \in Terminated :
        LET blk == BuiltRecord.basic_blocks[b]
            raw == blk.v.terminator
        IN /\ \A label \in {"goto", "switch", "return", "unwind"} :
                CfgOutLabelled(TermNode(blk.k), label)
                  = LiveTargetsOf(raw, label)
           /\ raw = Ret => CfgOut(TermNode(blk.k)) = 0

\* switchInt(move _1) -> [return: bb2, unwind: bb1]; with both blocks
\* present and ending in return; : two switch edges, one return edge and
\* one unwind edge leave bb0, none leaves bb1
C24_Witness ==
    /\ Built
    /\ BuiltRecord.basic_blocks[1].v.terminator = SwitchCall
    /\ Entry("bb1") # NoNode /\ Entry("bb2") # NoNode
    /\ NodesOf("bb1", "terminator") # {}
    /\ Raw(TermNode("bb1")) = Ret
    /\ CfgOutLabelled(TermNode("bb0"), "switch") = 2
    /\ CfgCount(TermNode("bb0"), Entry("bb2"), "return") = 1
    /\ CfgCount(TermNode("bb0"), Entry("bb1"), "unwind") = 1
    /\ CfgOut(TermNode("bb0")) = 4
    /\ CfgOut(TermNode("bb1")) = 0

-----------------------------------------------------------------------------
(* CPGBuilder: pure uses *)

\* C25: a node whose text is no assignment is a pure use: for every
\* distinct local it mentions that has a definition at that moment it gets
\* exactly one DFG edge, from the defining node, and it defines nothing:
\* no DFG edge starts at it and the table never points at it, so the reads
\* after it resolve to the same assignments as they would without it.
C25_PureUse ==
    Built =>
      /\ \A h \in Handles :
           ~IsAssignment(Raw(h)) =>
             /\ \A d \in Handles :
                  DfgCount(d, h)
                    = Cardinality({v \in Reads(Raw(h)) :
                         WritersBefore(h, v) # {} /\ LastWriter(h, v) = d})
                  /\ DfgCount(h, d) = 0
             /\ \A v \in DOMAIN definitions : definitions[v] # h
      /\ \A h \in Handles :
           \A v \in Reads(Raw(h)) :
             WritersBefore(h, v) # {} => DfgCount(LastWriter(h, v), h) = 1

\* _1 = 5; then StorageDead(_1); then _2 = _1; : the use gets its edge from
\* the assignment, and so does the read after it
C25_Witness ==
    /\ Built
    /\ Len(graph.nodes) = 3
    /\ Raw(0) = Asg /\ Raw(1) = Dead1 /\ Raw(2) = Copy21
    /\ DfgCount(0, 1) = 1
    /\ DfgCount(0, 2) = 1
    /\ DfgCount(1, 2) = 0
    /\ definitions["_1"] = 0

-----------------------------------------------------------------------------
(* CPGBuilder: the shape of the data-flow edges *)

\* the nodes a DFG edge leads to from a node of S
DfgSucc(S) == {h \in Handles : \E d \in S : DfgCount(d, h) > 0}

RECURSIVE DfgReach(_, _)
\* the nodes reached from S along one to k DFG edges
DfgReach(S, k) ==
    IF k = 0 THEN {}
    ELSE DfgSucc(S) \cup DfgReach(DfgSucc(S), k - 1)

\* C26: every DFG edge goes from a node handled strictly earlier to a node
\* handled later when the data-flow edges are built (blocks by number,
\* statements in order, then the terminator); the reads of a node are
\* resolved before its own definition is recorded, so _1 = Add(_1, _2);
\* gets its edge from the assignment of _1 before it; no DFG edge is a
\* self-loop and the DFG edges form no cycle.
C26_DfgIsAcyclic ==
    Built =>
      /\ \A d \in Handles : \A h \in Handles :
           DfgCount(d, h) > 0 => (d # h /\ Before(d, h) /\ ~Before(h, d))
      /\ \A h \in Handles : h \notin DfgReach({h}, Len(graph.nodes))
      /\ \A h \in Handles :
           (IsAssignment(Raw(h)) /\ Raw(h)[1] \in Reads(Raw(h))) =>
             /\ DfgCount(h, h) = 0
             /\ WritersBefore(h, Raw(h)[1]) # {} =>
                  DfgCount(LastWriter(h, Raw(h)[1]), h) = 1

\* _1 = 5; then _1 = Add(_1, _2); then _2 = _1; : the second node gets its
\* edge from the first, the third from the second, and no node from itself
C26_Witness ==
    /\ Built
    /\ Len(graph.nodes) = 3
    /\ Raw(0) = Asg /\ Raw(1) = Self1 /\ Raw(2) = Copy21
    /\ DfgCount(0, 1) = 1
    /\ DfgCount(1, 1) = 0
    /\ DfgCount(1, 2) = 1
    /\ DfgReach({0}, 3) = {1, 2}

-----------------------------------------------------------------------------
(* CPGBuilder: the shape of the edges *)

\* C27: both ends of every edge are handles of created nodes; a CFG edge
\* starts at a terminator node and ends at the entry node of a block (its
\* statement 0, or its terminator when it has no statement) and carries a
\* label out of goto, switch, return, unwind; a DFG edge carries no label.
C27_EdgesAreWellFormed ==
    Built =>
      \A e \in DOMAIN graph.edges :
        /\ e.src \in Handles /\ e.dst \in Handles
        /\ e.type \in {"CFG", "DFG"}
        /\ e.type = "CFG" =>
             /\ DOMAIN e = {"src", "dst", "type", "label"}
             /\ e.label \in {"goto", "switch", "return", "unwind"}
             /\ graph.nodes[e.src + 1].type = "terminator"
             /\ e.dst = Entry(BlockOf(e.dst))
             /\ \/ MapGet(node_map, <<BlockOf(e.dst), 0>>) = e.dst
                \/ /\ MapGet(node_map, <<BlockOf(e.dst), 0>>) = NoNode
                   /\ MapGet(node_map, <<BlockOf(e.dst), Term>>) = e.dst
        /\ e.type = "DFG" => DOMAIN e = {"src", "dst", "type"}

\* bb0 with _1 = 5; and switchInt(move _1) -> [0: bb1, otherwise: bb2];
\* and bb1 with a statement: a DFG edge into the terminator of bb0 and a
\* switch edge from it to the statement of bb1, while bb2 is no block
C27_Witness ==
    /\ Built
    /\ Raw(0) = Asg /\ Raw(1) = Switch12
    /\ NodesOf("bb1", "statement") # {}
    /\ Entry("bb2") = NoNode
    /\ DfgCount(0, 1) = 1
    /\ CfgCount(1, Min(NodesOf("bb1", "statement")), "switch") = 1
    /\ BagCardinality(graph.edges) = 2

-----------------------------------------------------------------------------
(* MIRParser: repeated names and repeated labels *)

\* the names of the function headers of the text
HeaderNames == {FUNC_START(lines[i]) : i \in HeaderIdx}

\* the positions of the headers with this name
HeadersOf(name) == {i \in HeaderIdx : FUNC_START(lines[i]) = name}

\* C28: when two spans of one input have the same function name, the
\* mapping has one entry for the name and it holds the record of the
\* textually last span: nothing of an earlier span is kept or merged in;
\* the number of keys is the number of distinct header names.
C28_LastSpanWins ==
    Parsed =>
      /\ Len(functions) = Cardinality(HeaderNames)
      /\ \A name \in HeaderNames :
           /\ Cardinality({f \in 1..Len(functions) : functions[f].k = name}) = 1
           /\ Val(functions, name) = RecordOf(SpanAt(Max(HeadersOf(name))))
           /\ \A i \in HeadersOf(name) :
                (i # Max(HeadersOf(name))
                   /\ RecordOf(SpanAt(i)) # RecordOf(SpanAt(Max(HeadersOf(name)))))
                => Val(functions, name) # RecordOf(SpanAt(i))

\* fn a() { with a declaration, then fn a() { with a block: the one entry
\* has the block and no declaration
C28_Witness ==
    /\ Parsed
    /\ lines = <<FnA, DeclU8, FnA, Bb0Open>>
    /\ Len(functions) = 1
    /\ functions[1].k = "a"
    /\ functions[1].v.declarations = <<>>
    /\ Keys(functions[1].v.basic_blocks) = <<"bb0">>

\* the positions in a body of the markers of this label
MarkersOf(body, label) ==
    {i \in 1..Len(body) : IsLabelLine(body[i]) /\ BLOCK_RE(body[i]) = label}

\* the lines of a body after the marker at i, up to the next marker
SegmentAfter(body, i) ==
    LET later == {j \in (i + 1)..Len(body) : IsLabelLine(body[j])}
    IN SubSeq(body, i + 1,
              IF later = {} THEN Len(body) ELSE Min(later) - 1)

\* a line that a block records: no declaration, not empty, no comment
IsContent(s) == ~DECL_RE(s) /\ s # <<>> /\ ~StartsWith(s, <<"//">>)

\* C29: a bbN: marker always opens the block with no statement and no
\* terminator, also when the label was opened before in the function: a
\* block holds what follows the LAST marker of its label up to the next
\* marker and nothing collected under an earlier one, and the labels stand
\* in the mapping in the order of their first markers.
C29_MarkerReopensBlock ==
    Parsed =>
      \A name \in HeaderNames :
        LET body == BodyOf(LastSpanOf(name))
            blocks == Val(functions, name).basic_blocks
        IN /\ KeySet(blocks) = Range(LabelsOf(body))
           /\ \A p, q \in 1..Len(blocks) :
                p < q => Min(MarkersOf(body, blocks[p].k))
                           < Min(MarkersOf(body, blocks[q].k))
           /\ \A b \in 1..Len(blocks) :
                LET seg == SegmentAfter(body, Max(MarkersOf(body, blocks[b].k)))
                    terms == {i \in 1..Len(seg) :
                                IsContent(seg[i]) /\ HasTerminatorToken(seg[i])}
                IN /\ blocks[b].v.statements =
                        SelectSeq(seg, LAMBDA l : IsContent(l)
                                                  /\ ~HasTerminatorToken(l))
                   /\ blocks[b].v.terminator =
                        IF terms = {} THEN None ELSE seg[Max(terms)]

\* bb0 with an assignment, then bb1, then bb0 again with a return: bb0 stays
\* first and holds the return alone
C29_Witness ==
    /\ Parsed
    /\ lines = <<FnA, Label("bb0"), Asg, Label("bb1"), Label("bb0"), Ret>>
    /\ Keys(functions[1].v.basic_blocks) = <<"bb0", "bb1">>
    /\ functions[1].v.basic_blocks[1].v = [statements |-> <<>>, terminator |-> Ret]
    /\ functions[1].v.basic_blocks[2].v = EmptyBlock

=============================================================================
